---- MODULE Spec2Model ----
(***************************************************************************)
(* pochimethod: the class Registry (pochi/registry/registry.py), the      *)
(* timestamp namer (pochi/workspace/timestamp.py), WorkspaceCreator and    *)
(* Workspace (pochi/workspace/creator.py, models.py), the facade method    *)
(* Pochi.create_workspace (pochi/pochi.py), DirectoryCreator,              *)
(* LoggerFactory, TimerContext, StructurePreservingCopier, GlobFileFinder  *)
(* and ConfigLoaderFacade as state machines.                               *)
(*                                                                         *)
(*   Spec          one Registry instance, every public operation           *)
(*   SpecInstances two Registry instances, the second one constructed on   *)
(*                 the way, operations interleaved on both                 *)
(*   SpecTS        find_next_index applied to bounded directory listings   *)
(*   SpecFmt       format_workspace_name applied to dates and indices      *)
(*   SpecWS        WorkspaceCreator.create, all modes, on a bounded disk   *)
(*   SpecPrefix    numbered allocation with several prefixes               *)
(*   SpecAttr      attribute lookup on constructed Workspace objects       *)
(*   SpecFacade    Pochi.create_workspace in front of WorkspaceCreator     *)
(*   SpecDir       DirectoryCreator.create on a bounded disk               *)
(*   SpecLog       LoggerFactory.create with its class-level cache         *)
(*   SpecTimer     with statements on one TimerContext                     *)
(*   SpecCopier    copy and move of StructurePreservingCopier              *)
(*   SpecFinder    GlobFileFinder.find on a small tree                     *)
(*   SpecConfig    ConfigLoaderFacade: load, load_dict, register_loader    *)
(*   SpecRace      two allocators interleaved in _create_numbered_dir      *)
(***************************************************************************)
EXTENDS Integers, Sequences, FiniteSets, TLC

(***************************************************************************)
(* Bounds of the model.                                                    *)
(***************************************************************************)
\* longest config_list handed to create_from_config
MaxLen == 2
\* most children base_dir holds when find_next_index scans it
MaxEntries == 3
\* the largest index a workspace name is formatted for
MaxIndex == 1000
\* most children base_dir holds when a Workspace has been created in it;
\* it starts with fewer
MaxChildren == 3
\* most numbered directories allocated in one base_dir
MaxAllocs == 12
\* longest subdirs list a Workspace is constructed with
MaxSubdirs == 2
\* most calls Pochi hands on to its workspace creator
MaxCalls == 2

(***************************************************************************)
(* Input universes.                                                        *)
(***************************************************************************)
\* identities of the Registry objects on the heap
Regs == {"r1", "r2"}
\* the name argument of Registry(name)
RegNames == {"models", "losses"}
\* registry keys (the name argument of register / create)
RegKeys == {"blur", "edge"}
\* the classes a caller registers: Blur(size=...), Tagged(name=...)
Types == {"Blur", "Tagged"}
\* keyword names a caller passes
ParamNames == {"size", "name"}
\* keyword values a caller passes
ParamVals == {5}
\* marks a Registry object that has not been constructed
NotCreated == "<not created>"

(***************************************************************************)
(* Python's dict, which keeps insertion order: a sequence of <<key, value>> *)
(* pairs with pairwise different keys.                                     *)
(***************************************************************************)
DictEmpty == << >>

DictKeys(d) == [i \in 1..Len(d) |-> d[i][1]]

DictHas(d, k) == \E i \in 1..Len(d) : d[i][1] = k

DictGet(d, k) == d[CHOOSE i \in 1..Len(d) : d[i][1] = k][2]

DictLen(d) == Len(d)

\* d[k] = v put first instead of last
DictSetItemFront(d, k, v) ==
    IF DictHas(d, k)
    THEN [i \in 1..Len(d) |-> IF d[i][1] = k THEN <<k, v>> ELSE d[i]]
    ELSE << <<k, v>> >> \o d

\* d[k] = v: rebinds k in place, or appends a new key
DictSetItem(d, k, v) ==
    IF DictHas(d, k)
    THEN [i \in 1..Len(d) |-> IF d[i][1] = k THEN <<k, v>> ELSE d[i]]
    ELSE Append(d, <<k, v>>)

\* d.pop(k)
DictPop(d, k) == SelectSeq(d, LAMBDA p : p[1] # k)

(***************************************************************************)
(* The callers' classes and keyword arguments.                             *)
(***************************************************************************)
\* every **kwargs mapping: a function from some keyword names to values
KwargsSet == UNION {[S -> ParamVals] : S \in SUBSET ParamNames}

\* the keyword parameters the constructor of cls accepts
CtorParams(cls) == IF cls = "Blur" THEN {"size"} ELSE {"name"}

\* cls(**kwargs): the instance, or the constructor's TypeError
Construct(cls, kwargs) ==
    IF DOMAIN kwargs \subseteq CtorParams(cls)
    THEN [kind |-> "instance", cls |-> cls, attrs |-> kwargs]
    ELSE [kind |-> "TypeError", what |-> "unexpected keyword argument",
          cls |-> cls]

\* the records of a config_list: an optional "name" and an optional "size"
Steps ==
    {[name |-> n] : n \in RegKeys}
    \cup {[name |-> n, size |-> v] : n \in RegKeys, v \in ParamVals}
    \cup {[size |-> v] : v \in ParamVals}

\* every sequence over S of length at most n
RECURSIVE SeqsUpTo(_, _)
SeqsUpTo(S, n) ==
    IF n = 0 THEN {<< >>}
    ELSE LET shorter == SeqsUpTo(S, n - 1)
         IN  shorter \cup {Append(s, x) : s \in {t \in shorter : Len(t) = n - 1}, x \in S}

ConfigLists == SeqsUpTo(Steps, MaxLen)

(***************************************************************************)
(* State.                                                                  *)
(***************************************************************************)
VARIABLES
    regName,     \* Registry._name of every object (NotCreated before __init__)
    registry,    \* Registry._registry of every object: a dict key -> class
    decorators,  \* the closures register() has returned: <<object, name>>
    call,        \* the operation performed last, with its arguments
    ret,         \* what it returned or raised
    looked,      \* the keys it tested against _registry, in order
    called,      \* the constructor calls it made, in order: <<class, kwargs>>
    log,         \* per object, the registrations that succeeded, in order
    baseKind,    \* base_dir on disk: "absent", "dir" or "file"
    entries,     \* the children of base_dir: name -> is_dir
    tsCall,      \* the find_next_index call performed last
    tsRet,       \* what it returned or raised
    outputs,     \* ./outputs on disk: "absent", "dir" or "file"
    subs,        \* the children of the directories under base_dir
    wsCall,      \* the create call performed last, with its arguments
    wsRet,       \* the Workspace it returned, or what it raised
    streak,      \* ghost: the run of timestamped creates made so far
    allocs,      \* ghost: per prefix, the numbered creates that succeeded
    attrCall,    \* the attribute looked up last on the Workspace
    attrRet,     \* what the lookup returned or raised
    creatorCalls, \* the calls the injected creator received from Pochi
    pochiCall,   \* the Pochi.create_workspace call performed last
    dDirs, \* the directories on the disk DirectoryCreator works on, as paths
    dFiles, \* the regular files on that disk, as paths
    dCall, \* the DirectoryCreator.create call performed last
    dRet, \* what it returned or raised
    lgLoggers, \* the loggers of the logging module: name -> level, handlers, propagate
    lgCache, \* LoggerFactory._loggers: a dict cache_key -> logger
    lgCall, \* the LoggerFactory.create call performed last
    lgRet, \* the logger it returned
    lgDone, \* ghost: per name and log_dir, the logger create returned first
    tmTimer, \* the TimerContext: _name, _logger, _start_time, _elapsed (milliseconds)
    tmClock, \* time.perf_counter(), in milliseconds
    tmPc, \* where the with statement on the timer is: "ready" or "body"
    tmInfo, \* the messages logger.info received
    tmWarning, \* the messages logger.warning received
    tmOut, \* the lines print wrote
    tmExit, \* the exception the body ended with and what __exit__ returned, last time
    tmRaised, \* what the with statement raised, last time
    cpDirs, \* the directories on the disk the copier works on, as absolute paths
    cpFiles, \* the regular files on that disk: absolute path -> content
    cpNow, \* datetime.now(), in seconds
    cpOps, \* how many copy and move calls were made
    cpCall, \* the copy or move call performed last
    cpRet, \* what it returned or raised
    fdDirs, \* the directories on the disk the finder searches, as paths
    fdFiles, \* the regular files on that disk, as paths
    fdCall, \* the GlobFileFinder.find call performed last
    fdRet, \* what it returned or raised
    cfArg, \* the loaders argument the ConfigLoaderFacade was built with
    cfLoaders, \* ConfigLoaderFacade._loaders
    cfRegistered, \* ghost: the loaders passed to register_loader, in order
    cfCall, \* the facade call performed last
    cfRet, \* what it returned or raised
    rcEntries, \* the children of the base_dir two allocators share: name -> is_dir
    rcPc, \* where each allocator is in _create_numbered_dir
    rcPrefix, \* the prefix each allocator was called with
    rcIndex, \* the index each allocator is at
    rcRet, \* what the call of each allocator returned or raised
    rcCalls, \* how many calls each allocator has begun
    rcRaced \* ghost: the target an allocator checked while the other had checked it and not yet made it

regVars == <<regName, registry, decorators, call, ret, looked, called, log>>
tsVars == <<baseKind, entries, tsCall, tsRet>>
wsVars == <<outputs, subs, wsCall, wsRet, streak, allocs, attrCall, attrRet,
            creatorCalls, pochiCall>>
dirVars == <<dDirs, dFiles, dCall, dRet>>
lgVars == <<lgLoggers, lgCache, lgCall, lgRet, lgDone>>
tmVars == <<tmTimer, tmClock, tmPc, tmInfo, tmWarning, tmOut, tmExit, tmRaised>>
cpVars == <<cpDirs, cpFiles, cpNow, cpOps, cpCall, cpRet>>
fdVars == <<fdDirs, fdFiles, fdCall, fdRet>>
cfVars == <<cfArg, cfLoaders, cfRegistered, cfCall, cfRet>>
rcVars == <<rcEntries, rcPc, rcPrefix, rcIndex, rcRet, rcCalls, rcRaced>>
extVars == <<dirVars, lgVars, tmVars, cpVars, fdVars, cfVars, rcVars>>
\* everything but the variables named in dirVars
dirOthers == <<regVars, tsVars, wsVars, lgVars, tmVars, cpVars, fdVars, cfVars, rcVars>>
\* everything but the variables named in lgVars
lgOthers == <<regVars, tsVars, wsVars, dirVars, tmVars, cpVars, fdVars, cfVars, rcVars>>
\* everything but the variables named in tmVars
tmOthers == <<regVars, tsVars, wsVars, dirVars, lgVars, cpVars, fdVars, cfVars, rcVars>>
\* everything but the variables named in cpVars
cpOthers == <<regVars, tsVars, wsVars, dirVars, lgVars, tmVars, fdVars, cfVars, rcVars>>
\* everything but the variables named in fdVars
fdOthers == <<regVars, tsVars, wsVars, dirVars, lgVars, tmVars, cpVars, cfVars, rcVars>>
\* everything but the variables named in cfVars
cfOthers == <<regVars, tsVars, wsVars, dirVars, lgVars, tmVars, cpVars, fdVars, rcVars>>
\* everything but the variables named in rcVars
rcOthers == <<regVars, tsVars, wsVars, dirVars, lgVars, tmVars, cpVars, fdVars, cfVars>>
vars == <<regName, registry, decorators, call, ret, looked, called, log,
          baseKind, entries, tsCall, tsRet,
          outputs, subs, wsCall, wsRet, streak, allocs, attrCall, attrRet,
          creatorCalls, pochiCall, extVars>>

(***************************************************************************)
(* Registry: the methods as functions of the dict they read.  Each returns *)
(* an outcome: ret (the value returned or the exception raised), registry  *)
(* (the dict afterwards), looked (the keys tested against the dict) and    *)
(* called (the constructor calls made).                                    *)
(***************************************************************************)
\* every object's _registry is a dict of its own, made in __init__
SlotShared(r) == "r1"

Slot(r) == r

\* self._registry of object r
Dict(r) == registry[Slot(r)]

Outcome(r, d, l, c) == [ret |-> r, registry |-> d, looked |-> l, called |-> c]

DuplicateError(name, cls) ==
    [kind |-> "ValueError", what |-> "already registered", key |-> name,
     registered |-> cls]

UnregisteredError(name, available) ==
    [kind |-> "ValueError", what |-> "unregistered", key |-> name,
     available |-> available]

MissingNameError == [kind |-> "KeyError", what |-> "config needs key", field |-> "name"]

\* create() called with a keyword that is also one of its own parameters
BindingError(arg) ==
    [kind |-> "TypeError", what |-> "multiple values for argument", arg |-> arg]

\* the decorator without its duplicate check
decoratorOverwrite(d, name, cls) ==
    Outcome([kind |-> "type", cls |-> cls], DictSetItem(d, name, cls), <<name>>, << >>)

\* decorator(cls), the closure register(name) returns
decorator(d, name, cls) ==
    IF DictHas(d, name)
    THEN Outcome(DuplicateError(name, DictGet(d, name)), d, <<name>>, << >>)
    ELSE Outcome([kind |-> "type", cls |-> cls], DictSetItem(d, name, cls),
                 <<name>>, << >>)

keys(d) == DictKeys(d)

contains(d, name) == DictHas(d, name)

len(d) == DictLen(d)

\* create(name, **kwargs); a keyword called name collides with the
\* parameter name of create itself and is refused when the call is bound
create(d, name, kwargs) ==
    IF "name" \in DOMAIN kwargs
    THEN Outcome(BindingError("name"), d, << >>, << >>)
    ELSE IF ~DictHas(d, name)
    THEN Outcome(UnregisteredError(name, keys(d)), d, <<name>>, << >>)
    ELSE Outcome(Construct(DictGet(d, name), kwargs), d, <<name>>,
                 << <<DictGet(d, name), kwargs>> >>)

\* {k: v for k, v in step.items()}: the name is passed on as a keyword
WithoutNameKept(step) == step

\* {k: v for k, v in step.items() if k != "name"}
WithoutName(step) == [k \in DOMAIN step \ {"name"} |-> step[k]]

\* the loop with `continue` in place of the KeyError
RECURSIVE cfcLoopSkipNameless(_, _, _, _, _, _)
cfcLoopSkipNameless(d, config_list, i, result, l, c) ==
    IF i > Len(config_list)
    THEN Outcome([kind |-> "list", items |-> result], d, l, c)
    ELSE LET step == config_list[i]
         IN  IF "name" \notin DOMAIN step
             THEN cfcLoopSkipNameless(d, config_list, i + 1, result, l, c)
             ELSE LET made == create(d, step["name"], WithoutName(step))
                  IN  IF made.ret.kind # "instance"
                      THEN Outcome(made.ret, d, l \o made.looked, c \o made.called)
                      ELSE cfcLoopSkipNameless(d, config_list, i + 1,
                                               Append(result, made.ret),
                                               l \o made.looked, c \o made.called)

\* the loop that works through the later records before it raises
RECURSIVE cfcLoopKeepGoing(_, _, _, _, _, _)
cfcLoopKeepGoing(d, config_list, i, result, l, c) ==
    IF i > Len(config_list)
    THEN Outcome([kind |-> "list", items |-> result], d, l, c)
    ELSE LET step == config_list[i]
             made == IF "name" \notin DOMAIN step
                     THEN Outcome(MissingNameError, d, << >>, << >>)
                     ELSE create(d, step["name"], WithoutName(step))
             later == cfcLoopKeepGoing(d, config_list, i + 1,
                                       Append(result, made.ret),
                                       l \o made.looked, c \o made.called)
         IN  IF made.ret.kind # "instance"
             THEN Outcome(made.ret, d, later.looked, later.called)
             ELSE later

\* the loop of create_from_config from record i on; result, l and c are what
\* the earlier records have left
RECURSIVE cfcLoop(_, _, _, _, _, _)
cfcLoop(d, config_list, i, result, l, c) ==
    IF i > Len(config_list)
    THEN Outcome([kind |-> "list", items |-> result], d, l, c)
    ELSE LET step == config_list[i]
         IN  IF "name" \notin DOMAIN step
             THEN Outcome(MissingNameError, d, l, c)
             ELSE LET made == create(d, step["name"], WithoutName(step))
                  IN  IF made.ret.kind # "instance"
                      THEN Outcome(made.ret, d, l \o made.looked, c \o made.called)
                      ELSE cfcLoop(d, config_list, i + 1,
                                   Append(result, made.ret),
                                   l \o made.looked, c \o made.called)

create_from_config(d, config_list) ==
    cfcLoop(d, config_list, 1, << >>, << >>, << >>)

(***************************************************************************)
(* Registry: the operations as actions on object r.                        *)
(***************************************************************************)
NoCall == [op |-> "none", self |-> "r1", name |-> "", cls |-> "",
           kwargs |-> << >>, config |-> << >>]

CallOf(op, r, name, cls, kwargs, config) ==
    [op |-> op, self |-> r, name |-> name, cls |-> cls, kwargs |-> kwargs,
     config |-> config]

Created(r) == regName[r] # NotCreated

\* apply an outcome of a method of object r
Apply(r, c, out) ==
    /\ call' = c
    /\ ret' = out.ret
    /\ looked' = out.looked
    /\ called' = out.called
    /\ registry' = [registry EXCEPT ![Slot(r)] = out.registry]

\* Registry(name)
RegistryInit(r, name) ==
    /\ ~Created(r)
    /\ regName' = [regName EXCEPT ![r] = name]
    /\ registry' = [registry EXCEPT ![Slot(r)] = DictEmpty]
    /\ call' = CallOf("__init__", r, name, "", << >>, << >>)
    /\ ret' = [kind |-> "none"]
    /\ looked' = << >>
    /\ called' = << >>
    /\ UNCHANGED <<decorators, log, tsVars, wsVars, extVars>>

\* register(name): hands out the closure, checks nothing yet
Register(r, name) ==
    /\ Created(r)
    /\ decorators' = decorators \cup {<<r, name>>}
    /\ call' = CallOf("register", r, name, "", << >>, << >>)
    /\ ret' = [kind |-> "decorator", self |-> r, name |-> name]
    /\ looked' = << >>
    /\ called' = << >>
    /\ UNCHANGED <<regName, registry, log, tsVars, wsVars, extVars>>

\* decorator(cls) of a closure handed out earlier
Decorator(r, name, cls) ==
    /\ <<r, name>> \in decorators
    /\ LET out == decorator(Dict(r), name, cls)
       IN  /\ Apply(r, CallOf("decorator", r, name, cls, << >>, << >>), out)
           /\ log' = IF out.ret.kind = "type"
                     THEN [log EXCEPT ![r] = Append(@, <<name, cls>>)]
                     ELSE log
    /\ UNCHANGED <<regName, decorators, tsVars, wsVars, extVars>>

\* create that takes the class out of the dict
CreatePop(r, name, kwargs) ==
    /\ Created(r)
    /\ LET out == create(Dict(r), name, kwargs)
       IN  Apply(r, CallOf("create", r, name, "", kwargs, << >>),
                 [out EXCEPT !.registry = DictPop(Dict(r), name)])
    /\ UNCHANGED <<regName, decorators, log, tsVars, wsVars, extVars>>

Create(r, name, kwargs) ==
    /\ Created(r)
    /\ Apply(r, CallOf("create", r, name, "", kwargs, << >>),
             create(Dict(r), name, kwargs))
    /\ UNCHANGED <<regName, decorators, log, tsVars, wsVars, extVars>>

Keys(r) ==
    /\ Created(r)
    /\ Apply(r, CallOf("keys", r, "", "", << >>, << >>),
             Outcome([kind |-> "list", items |-> keys(Dict(r))], Dict(r),
                     << >>, << >>))
    /\ UNCHANGED <<regName, decorators, log, tsVars, wsVars, extVars>>

CreateFromConfig(r, config_list) ==
    /\ Created(r)
    /\ Apply(r, CallOf("create_from_config", r, "", "", << >>, config_list),
             create_from_config(Dict(r), config_list))
    /\ UNCHANGED <<regName, decorators, log, tsVars, wsVars, extVars>>

Contains(r, name) ==
    /\ Created(r)
    /\ Apply(r, CallOf("__contains__", r, name, "", << >>, << >>),
             Outcome([kind |-> "bool", value |-> contains(Dict(r), name)],
                     Dict(r), <<name>>, << >>))
    /\ UNCHANGED <<regName, decorators, log, tsVars, wsVars, extVars>>

Length(r) ==
    /\ Created(r)
    /\ Apply(r, CallOf("__len__", r, "", "", << >>, << >>),
             Outcome([kind |-> "int", n |-> len(Dict(r))], Dict(r), << >>, << >>))
    /\ UNCHANGED <<regName, decorators, log, tsVars, wsVars, extVars>>

(***************************************************************************)
(* Specifications of the registry.                                         *)
(***************************************************************************)
\* the components below are not in use
\* dirVars at rest
dirIdle ==
    /\ dDirs = {}
    /\ dFiles = {}
    /\ dCall = << >>
    /\ dRet = [kind |-> "none"]

\* lgVars at rest
lgIdle ==
    /\ lgLoggers = << >>
    /\ lgCache = << >>
    /\ lgCall = << >>
    /\ lgRet = [kind |-> "none"]
    /\ lgDone = << >>

\* tmVars at rest
tmIdle ==
    /\ tmTimer = << >>
    /\ tmClock = 0
    /\ tmPc = "ready"
    /\ tmInfo = << >>
    /\ tmWarning = << >>
    /\ tmOut = << >>
    /\ tmExit = << >>
    /\ tmRaised = [some |-> FALSE]

\* cpVars at rest
cpIdle ==
    /\ cpDirs = {}
    /\ cpFiles = << >>
    /\ cpNow = 0
    /\ cpOps = 0
    /\ cpCall = << >>
    /\ cpRet = [kind |-> "none"]

\* fdVars at rest
fdIdle ==
    /\ fdDirs = {}
    /\ fdFiles = {}
    /\ fdCall = << >>
    /\ fdRet = [kind |-> "none"]

\* cfVars at rest
cfIdle ==
    /\ cfArg = [some |-> FALSE]
    /\ cfLoaders = << >>
    /\ cfRegistered = << >>
    /\ cfCall = << >>
    /\ cfRet = [kind |-> "none"]

\* rcVars at rest
rcIdle ==
    /\ rcEntries = << >>
    /\ rcPc = << >>
    /\ rcPrefix = << >>
    /\ rcIndex = << >>
    /\ rcRet = << >>
    /\ rcCalls = << >>
    /\ rcRaced = << >>

dirOthersIdle == lgIdle /\ tmIdle /\ cpIdle /\ fdIdle /\ cfIdle /\ rcIdle

lgOthersIdle == dirIdle /\ tmIdle /\ cpIdle /\ fdIdle /\ cfIdle /\ rcIdle

tmOthersIdle == dirIdle /\ lgIdle /\ cpIdle /\ fdIdle /\ cfIdle /\ rcIdle

cpOthersIdle == dirIdle /\ lgIdle /\ tmIdle /\ fdIdle /\ cfIdle /\ rcIdle

fdOthersIdle == dirIdle /\ lgIdle /\ tmIdle /\ cpIdle /\ cfIdle /\ rcIdle

cfOthersIdle == dirIdle /\ lgIdle /\ tmIdle /\ cpIdle /\ fdIdle /\ rcIdle

rcOthersIdle == dirIdle /\ lgIdle /\ tmIdle /\ cpIdle /\ fdIdle /\ cfIdle

ExtIdle == dirIdle /\ lgIdle /\ tmIdle /\ cpIdle /\ fdIdle /\ cfIdle /\ rcIdle

\* no Workspace has been asked for
WSIdle ==
    /\ outputs = "absent"
    /\ subs = << >>
    /\ wsCall = << >>
    /\ wsRet = [kind |-> "none"]
    /\ streak = 0
    /\ allocs = << >>
    /\ attrCall = << >>
    /\ attrRet = [kind |-> "none"]
    /\ creatorCalls = << >>
    /\ pochiCall = << >>

TSIdle ==
    /\ baseKind = "absent"
    /\ entries = << >>
    /\ tsCall = << >>
    /\ tsRet = [kind |-> "none"]
    /\ WSIdle
    /\ ExtIdle

\* registry = Registry("models") has run for the first object
Init ==
    /\ regName = [r \in Regs |-> IF r = "r1" THEN "models" ELSE NotCreated]
    /\ registry = [r \in Regs |-> DictEmpty]
    /\ decorators = {}
    /\ call = NoCall
    /\ ret = [kind |-> "none"]
    /\ looked = << >>
    /\ called = << >>
    /\ log = [r \in Regs |-> << >>]
    /\ TSIdle

Next ==
    \E r \in Regs :
        \/ \E name \in RegKeys : Register(r, name)
        \/ \E name \in RegKeys, cls \in Types : Decorator(r, name, cls)
        \/ \E name \in RegKeys, kwargs \in KwargsSet : Create(r, name, kwargs)
        \/ Keys(r)
        \/ \E config_list \in ConfigLists : CreateFromConfig(r, config_list)
        \/ \E name \in RegKeys : Contains(r, name)
        \/ Length(r)

Spec == Init /\ [][Next]_vars

\* a second Registry is constructed on the way; batches are single records
NextInstances ==
    \E r \in Regs :
        \/ \E n \in RegNames : RegistryInit(r, n)
        \/ \E name \in RegKeys : Register(r, name)
        \/ \E name \in RegKeys, cls \in Types : Decorator(r, name, cls)
        \/ \E name \in RegKeys, kwargs \in KwargsSet : Create(r, name, kwargs)
        \/ Keys(r)
        \/ \E name \in RegKeys : Contains(r, name)
        \/ Length(r)

SpecInstances == Init /\ [][NextInstances]_vars

(***************************************************************************)
(* Strings are sequences of one-character strings, so that startswith,     *)
(* split and int are computed as Python computes them.                     *)
(***************************************************************************)
DigitChars == <<"0", "1", "2", "3", "4", "5", "6", "7", "8", "9">>

IsDigit(ch) == \E i \in 1..Len(DigitChars) : DigitChars[i] = ch

DigitVal(ch) == (CHOOSE i \in 1..Len(DigitChars) : DigitChars[i] = ch) - 1

\* s.startswith(prefix)
StartsWith(s, prefix) ==
    /\ Len(s) >= Len(prefix)
    /\ SubSeq(s, 1, Len(prefix)) = prefix

\* s.split(sep) for a one-character sep: the fields between the separators
RECURSIVE Split(_, _)
Split(s, sep) ==
    IF \A i \in 1..Len(s) : s[i] # sep
    THEN <<s>>
    ELSE LET at == CHOOSE i \in 1..Len(s) :
                       /\ s[i] = sep
                       /\ \A j \in 1..(i - 1) : s[j] # sep
         IN  <<SubSeq(s, 1, at - 1)>> \o Split(SubSeq(s, at + 1, Len(s)), sep)

\* s.strip() for the blank
RECURSIVE Strip(_)
Strip(s) ==
    IF s # << >> /\ s[1] = " " THEN Strip(Tail(s))
    ELSE IF s # << >> /\ s[Len(s)] = " " THEN Strip(SubSeq(s, 1, Len(s) - 1))
    ELSE s

\* the value of a string of decimal digits
RECURSIVE DecimalValue(_)
DecimalValue(s) ==
    IF s = << >> THEN 0
    ELSE 10 * DecimalValue(SubSeq(s, 1, Len(s) - 1)) + DigitVal(s[Len(s)])

AllDigits(s) == s # << >> /\ \A i \in 1..Len(s) : IsDigit(s[i])

\* int(s): blanks around the number and one sign in front of it are
\* accepted; anything else raises ValueError
PyInt(s) ==
    LET t == Strip(s)
        signed == t # << >> /\ t[1] \in {"+", "-"}
        body == IF signed THEN Tail(t) ELSE t
    IN  IF AllDigits(body)
        THEN [ok |-> TRUE,
              val |-> IF signed /\ t[1] = "-" THEN 0 - DecimalValue(body)
                      ELSE DecimalValue(body)]
        ELSE [ok |-> FALSE, val |-> 0]

\* max(list) of a non-empty list
Max(list) == CHOOSE m \in {list[i] : i \in 1..Len(list)} :
                 \A i \in 1..Len(list) : list[i] <= m

(***************************************************************************)
(* Timestamp namer.                                                        *)
(***************************************************************************)
Str(a, b, c, d, e, f, g, h) == <<a, b, c, d, e, f, g, h>>

\* date strings as get_current_date_str formats them
Date1 == Str("2", "0", "2", "4", "1", "2", "3", "0")
Date2 == Str("2", "0", "2", "4", "1", "2", "3", "1")
Dates == {Date1, Date2}

\* names a child of base_dir may have
ChildNames ==
    { Date1 \o <<"_", "0", "0", "1">>,
      Date1 \o <<"_", "0", "0", "2">>,
      Date1 \o <<"_", "1", "0", "0", "0">>,
      Date1 \o <<"_", "0">>,
      Date1 \o <<"_", "a", "b", "c">>,
      Date1 \o <<"_", "0", "0", "5", "_", "x">>,
      Date1 \o <<"_", "-", "5">>,
      Date1 \o <<"_", "+", "7">>,
      Date1 \o <<"_", " ", "4">>,
      Date1 \o <<"_">>,
      Date1 \o <<"_", "_", "5">>,
      Date1,
      Date2 \o <<"_", "0", "0", "9">> }

\* every directory listing of at most MaxEntries children: name -> is_dir
Listings ==
    UNION {[S -> BOOLEAN] : S \in {T \in SUBSET ChildNames : Cardinality(T) <= MaxEntries}}

\* the body of the loop over base_dir.iterdir() for one path
ScanOne(existing_indices, name, is_dir, date_str) ==
    IF is_dir /\ StartsWith(name, date_str \o <<"_">>)
    THEN LET fields == Split(name, "_")
         IN  IF Len(fields) < 2 THEN existing_indices
             ELSE LET parsed == PyInt(fields[2])
                  IN  IF parsed.ok THEN Append(existing_indices, parsed.val)
                      ELSE existing_indices
    ELSE existing_indices

\* the loop over base_dir.iterdir(), in the order the file system lists
RECURSIVE Scan(_, _, _, _)
Scan(existing_indices, todo, ents, date_str) ==
    IF todo = {} THEN existing_indices
    ELSE LET name == CHOOSE n \in todo : TRUE
         IN  Scan(ScanOne(existing_indices, name, ents[name], date_str),
                  todo \ {name}, ents, date_str)

\* find_next_index(base_dir, date_str); iterdir of a regular file raises
find_next_index(kind, ents, date_str) ==
    IF kind = "absent" THEN [kind |-> "int", n |-> 1]
    ELSE IF kind = "file" THEN [kind |-> "NotADirectoryError"]
    ELSE LET existing_indices == Scan(<< >>, DOMAIN ents, ents, date_str)
         IN  IF existing_indices = << >> THEN [kind |-> "int", n |-> 1]
             ELSE [kind |-> "int", n |-> Max(existing_indices) + 1]

FindNextIndex(date_str) ==
    /\ tsCall' = <<"find_next_index", date_str>>
    /\ tsRet' = find_next_index(baseKind, entries, date_str)
    /\ UNCHANGED <<baseKind, entries, regVars, wsVars, extVars>>

RegIdle ==
    /\ regName = [r \in Regs |-> NotCreated]
    /\ registry = [r \in Regs |-> DictEmpty]
    /\ decorators = {}
    /\ call = NoCall
    /\ ret = [kind |-> "none"]
    /\ looked = << >>
    /\ called = << >>
    /\ log = [r \in Regs |-> << >>]

\* base_dir is absent, a regular file, or a directory with some children
InitTS ==
    /\ RegIdle
    /\ ExtIdle
    /\ WSIdle
    /\ \/ baseKind \in {"absent", "file"} /\ entries = << >>
       \/ baseKind = "dir" /\ entries \in Listings
    /\ tsCall = << >>
    /\ tsRet = [kind |-> "none"]

NextTS == \E date_str \in Dates : FindNextIndex(date_str)

SpecTS == InitTS /\ [][NextTS]_vars

(***************************************************************************)
(* Claims about the registry.                                              *)
(***************************************************************************)
\* the class the first successful registration of name bound it to
LogType(l, name) ==
    l[CHOOSE i \in 1..Len(l) :
          /\ l[i][1] = name
          /\ \A j \in 1..(i - 1) : l[j][1] # name][2]

LogKeys(l) == [i \in 1..Len(l) |-> l[i][1]]

\* C1: applying the decorator of register(key) while key is present (with
\* the same class or another) raises the duplicate-key error naming the key
\* and the class registered first, and leaves the registry as it was: the
\* key stays bound to the class of its first registration, no key is added.
C1_DuplicateRejected ==
    [][\A r \in Regs, name \in RegKeys, cls \in Types :
          (/\ call' = CallOf("decorator", r, name, cls, << >>, << >>)
           /\ DictHas(Dict(r), name))
          => /\ ret'.kind = "ValueError"
             /\ ret'.what = "already registered"
             /\ ret'.key = name
             /\ ret'.registered = LogType(log[r], name)
             /\ registry' = registry
             /\ DictGet(Dict(r)', name) = LogType(log[r], name)
             /\ log' = log]_vars

\* a duplicate registration with the very class registered first was refused
C1_Witness ==
    /\ call.op = "decorator"
    /\ ret.kind = "ValueError"
    /\ ret.registered = call.cls
    /\ DictLen(Dict(call.self)) = 1

\* C2: the key-to-class mapping only grows: no step removes or rebinds a
\* key or lowers the number of keys, and create, create_from_config, keys,
\* __contains__ and __len__ leave the mapping exactly as it was.
C2_OnlyGrows ==
    [][\A r \in Regs :
          /\ \A k \in RegKeys :
                DictHas(Dict(r), k)
                => /\ DictHas(Dict(r)', k)
                   /\ DictGet(Dict(r)', k) = DictGet(Dict(r), k)
          /\ DictLen(Dict(r)') >= DictLen(Dict(r))
          /\ call'.op \in {"create", "create_from_config", "keys",
                           "__contains__", "__len__", "register"}
             => registry' = registry]_vars

\* a batch of two instances was built from a registry holding two keys
C2_Witness ==
    /\ call.op = "create_from_config"
    /\ ret.kind = "list"
    /\ Len(ret.items) = 2
    /\ DictLen(Dict(call.self)) = 2

\* C3: keys() lists every registered key exactly once, in the order of the
\* first successful registrations; len(registry) is the length of keys();
\* and k in registry holds exactly when k occurs in keys().  The values the
\* three methods returned last agree with that.
C3_KeysInOrder ==
    \A r \in Regs :
        Created(r) =>
            LET ks == keys(Dict(r))
            IN  /\ ks = LogKeys(log[r])
                /\ \A i, j \in 1..Len(ks) : i # j => ks[i] # ks[j]
                /\ len(Dict(r)) = Len(ks)
                /\ \A k \in RegKeys :
                      contains(Dict(r), k) <=> \E i \in 1..Len(ks) : ks[i] = k
                /\ (call.self = r /\ call.op = "keys")
                   => ret.items = LogKeys(log[r])
                /\ (call.self = r /\ call.op = "__len__")
                   => ret.n = Len(log[r])
                /\ (call.self = r /\ call.op = "__contains__")
                   => (ret.value <=> \E i \in 1..Len(log[r]) : log[r][i][1] = call.name)

\* keys() returned edge before blur, the order they were registered in
C3_Witness ==
    /\ call.op = "keys"
    /\ ret.items = <<"edge", "blur">>
    /\ LogKeys(log[call.self]) = <<"edge", "blur">>

\* C4: create(key, **params) with an unregistered key raises the
\* unregistered-key error naming the key and listing the registered keys,
\* and constructs nothing.
C4_UnregisteredRaises ==
    (call.op = "create" /\ ~DictHas(Dict(call.self), call.name))
    => /\ ret.kind = "ValueError"
       /\ ret.what = "unregistered"
       /\ ret.key = call.name
       /\ ret.available = LogKeys(log[call.self])
       /\ called = << >>

\* C5: create(key, **params) with a registered key calls the class bound
\* to key with exactly params and returns what that call returns or raises.
C5_CreateForwards ==
    (call.op = "create" /\ DictHas(Dict(call.self), call.name))
    => LET cls == LogType(log[call.self], call.name)
       IN  /\ called = << <<cls, call.kwargs>> >>
           /\ ret = Construct(cls, call.kwargs)

\* the record has a name field
HasName(step) == "name" \in DOMAIN step

\* the record without its name field
Rest(step) == [k \in DOMAIN step \ {"name"} |-> step[k]]

\* the record's name was registered (l is the object's registration log)
Registered(l, step) ==
    HasName(step) /\ \E i \in 1..Len(l) : l[i][1] = step["name"]

\* the record's name is registered and its class accepts the record's keywords
Builds(l, step) ==
    /\ Registered(l, step)
    /\ DOMAIN Rest(step) \subseteq CtorParams(LogType(l, step["name"]))

\* the instance the record stands for
InstanceOf(l, step) ==
    [kind |-> "instance", cls |-> LogType(l, step["name"]), attrs |-> Rest(step)]

\* the position of the first record that cannot be built
FirstFailure(l, config_list) ==
    CHOOSE i \in 1..Len(config_list) :
        /\ ~Builds(l, config_list[i])
        /\ \A j \in 1..(i - 1) : Builds(l, config_list[j])

\* the constructor calls of c that returned an instance
Successful(c) == SelectSeq(c, LAMBDA x : DOMAIN x[2] \subseteq CtorParams(x[1]))

C7_Original ==
    (/\ call.op = "create_from_config"
     /\ \E i \in 1..Len(call.config) : ~HasName(call.config[i]))
    => /\ ret.kind = "KeyError"
       /\ ret.field = "name"

\* C7 (amended): create_from_config fails with the missing-name-field error
\* if a record lacks the name field and every record before it is built
\* without error; the error names the missing field, name.
C7_MissingName ==
    (/\ call.op = "create_from_config"
     /\ \E i \in 1..Len(call.config) :
           /\ ~HasName(call.config[i])
           /\ \A j \in 1..(i - 1) : Builds(log[call.self], call.config[j]))
    => /\ ret.kind = "KeyError"
       /\ ret.field = "name"

\* the missing-name error was raised at the second record, after the first
\* one had been constructed
C7_Witness ==
    /\ call.op = "create_from_config"
    /\ Len(call.config) = 2
    /\ HasName(call.config[1])
    /\ ~HasName(call.config[2])
    /\ ret.kind = "KeyError"
    /\ Len(called) = 1

\* C8 as stated: if create_from_config fails and i is the first record
\* that lacks a name, has an unregistered name or whose construction
\* raises, exactly the records before i have been constructed, no record
\* at i or later is looked up or constructed, no list is returned and the
\* registry is unchanged.
C8_Original ==
    [][(/\ call'.op = "create_from_config"
        /\ \E i \in 1..Len(call'.config) : ~Builds(log[call'.self], call'.config[i]))
       => LET l == log[call'.self]
              cfg == call'.config
              i == FirstFailure(l, cfg)
          IN  /\ ret'.kind # "list"
              /\ Successful(called') =
                     [j \in 1..(i - 1) |-> <<LogType(l, cfg[j]["name"]), Rest(cfg[j])>>]
              /\ looked' = [j \in 1..(i - 1) |-> cfg[j]["name"]]
              /\ registry' = registry
              /\ log' = log]_vars

\* C8 (amended): if create_from_config fails and i is the first record
\* that lacks a name, has an unregistered name or whose construction
\* raises, exactly the records before i have been constructed, in input
\* order; record i is looked up when it has a name and its constructor is
\* called when that name is registered, but it is not constructed; no
\* record after i is looked up or constructed; no list is returned and the
\* registry is unchanged.
C8_AbortsAtFirstFailure ==
    [][(/\ call'.op = "create_from_config"
        /\ \E i \in 1..Len(call'.config) : ~Builds(log[call'.self], call'.config[i]))
       => LET l == log[call'.self]
              cfg == call'.config
              i == FirstFailure(l, cfg)
              lastLooked == IF HasName(cfg[i]) THEN i ELSE i - 1
              lastCalled == IF Registered(l, cfg[i]) THEN i ELSE i - 1
          IN  /\ ret'.kind # "list"
              /\ Successful(called') =
                     [j \in 1..(i - 1) |-> <<LogType(l, cfg[j]["name"]), Rest(cfg[j])>>]
              /\ called' =
                     [j \in 1..lastCalled |-> <<LogType(l, cfg[j]["name"]), Rest(cfg[j])>>]
              /\ looked' = [j \in 1..lastLooked |-> cfg[j]["name"]]
              /\ registry' = registry
              /\ log' = log]_vars

\* a batch of two was aborted by its first record, whose constructor raised
C8_Witness ==
    /\ call.op = "create_from_config"
    /\ Len(call.config) = 2
    /\ Builds(log[call.self], call.config[2])
    /\ ret.kind = "TypeError"
    /\ Len(called) = 1
    /\ Len(looked) = 1

\* C9: two Registry objects never share their mapping, whatever their
\* names: an operation on one object leaves the mapping of the other as it
\* was, a key is present in an object exactly when it was registered
\* through that object, and a registration is refused as duplicate only
\* when the key was registered through the same object.
C9_Independent ==
    [][\A r \in Regs :
          /\ call'.self # r => Dict(r)' = Dict(r)
          /\ \A k \in RegKeys :
                contains(Dict(r)', k) <=> \E i \in 1..Len(log'[r]) : log'[r][i][1] = k
          /\ (/\ call'.op = "decorator"
              /\ call'.self = r
              /\ ret'.kind = "ValueError")
             => \E i \in 1..Len(log[r]) : log[r][i][1] = call'.name]_vars

\* two registries of the same name hold different keys, and the one
\* registered last was accepted although the other object holds keys
C9_Witness ==
    /\ regName["r1"] = regName["r2"]
    /\ keys(Dict("r1")) = <<"blur">>
    /\ keys(Dict("r2")) = <<"edge">>
    /\ call.op = "decorator"
    /\ ret.kind = "type"

(***************************************************************************)
(* Claims about the timestamp namer.                                       *)
(***************************************************************************)
\* what follows date_str and the underscore in a child's name
Suffix(name, date_str) == SubSeq(name, Len(date_str) + 2, Len(name))

\* the name is date_str, an underscore and something more
Tagged(name, date_str) ==
    /\ Len(name) > Len(date_str)
    /\ \A i \in 1..Len(date_str) : name[i] = date_str[i]
    /\ name[Len(date_str) + 1] = "_"

\* the part of s before its first underscore (all of s when it has none)
FirstField(s) ==
    LET stops == {i \in 1..Len(s) : s[i] = "_"}
    IN  IF stops = {} THEN s
        ELSE SubSeq(s, 1, (CHOOSE i \in stops : \A j \in stops : i <= j) - 1)

\* f is a run of digits lo..hi, at most one sign right before it, and
\* nothing but blanks around that
NumberAt(f, lo, hi) ==
    /\ lo <= hi
    /\ \A p \in lo..hi : IsDigit(f[p])
    /\ \A p \in (hi + 1)..Len(f) : f[p] = " "
    /\ \A p \in 1..(lo - 1) : f[p] = " " \/ (p = lo - 1 /\ f[p] \in {"+", "-"})

IntLike(f) == \E lo, hi \in 1..Len(f) : NumberAt(f, lo, hi)

IntValue(f) ==
    LET lo == CHOOSE a \in 1..Len(f) : \E b \in 1..Len(f) : NumberAt(f, a, b)
        hi == CHOOSE b \in 1..Len(f) : NumberAt(f, lo, b)
        magnitude == DecimalValue(SubSeq(f, lo, hi))
    IN  IF lo > 1 /\ f[lo - 1] = "-" THEN 0 - magnitude ELSE magnitude

\* C10 (for a base_dir that is absent or a directory): find_next_index
\* returns 1 when base_dir does not exist or no child matches, otherwise
\* max+1 over the numeric suffixes of exactly the children named
\* date_tag_<digits>; every other child is skipped without raising.
C10_NextIndex ==
    (tsCall # << >> /\ baseKind # "file")
    => LET date_str == tsCall[2]
           matching == {n \in DOMAIN entries :
                           /\ Tagged(n, date_str)
                           /\ AllDigits(Suffix(n, date_str))}
           indices == {DecimalValue(Suffix(n, date_str)) : n \in matching}
       IN  /\ tsRet.kind = "int"
           /\ IF baseKind = "absent" \/ matching = {}
              THEN tsRet.n = 1
              ELSE /\ tsRet.n - 1 \in indices
                   /\ \A v \in indices : v <= tsRet.n - 1

\* What the code computes, for a base_dir that is absent or a directory:
\* 1 when base_dir does not exist or no child counts, otherwise max+1 over
\* the values of the children that count.  A child counts when it is a
\* directory, its name starts with date_str and an underscore, and the text
\* up to the next underscore (or the end) is a number as int() reads it:
\* digits with an optional sign in front and blanks around.
FindNextIndexComputes ==
    (tsCall # << >> /\ baseKind # "file")
    => LET date_str == tsCall[2]
           counting == {n \in DOMAIN entries :
                           /\ entries[n]
                           /\ Tagged(n, date_str)
                           /\ IntLike(FirstField(Suffix(n, date_str)))}
           indices == {IntValue(FirstField(Suffix(n, date_str))) : n \in counting}
       IN  /\ tsRet.kind = "int"
           /\ IF baseKind = "absent" \/ counting = {}
              THEN tsRet.n = 1
              ELSE /\ tsRet.n - 1 \in indices
                   /\ \A v \in indices : v <= tsRet.n - 1

(***************************************************************************)
(* Workspace names.                                                        *)
(***************************************************************************)
\* str(n) for n >= 0
RECURSIVE Digits(_)
Digits(n) ==
    IF n < 10 THEN <<DigitChars[n + 1]>>
    ELSE Append(Digits(n \div 10), DigitChars[(n % 10) + 1])

Zeros(k) == [i \in 1..k |-> "0"]

\* the format without the zero padding
Format03dUnpadded(index) ==
    (IF index < 0 THEN <<"-">> ELSE << >>)
        \o Digits(IF index < 0 THEN 0 - index ELSE index)

\* f"{index:03d}": the sign, zeros up to a width of 3, the digits
Format03d(index) ==
    LET sign == IF index < 0 THEN <<"-">> ELSE << >>
        digits == Digits(IF index < 0 THEN 0 - index ELSE index)
        fill == 3 - Len(sign) - Len(digits)
    IN  sign \o Zeros(IF fill > 0 THEN fill ELSE 0) \o digits

format_workspace_name(date_str, index) ==
    date_str \o <<"_">> \o Format03d(index)

FmtIndices == (0 - 9)..MaxIndex

\* the arguments of one format_workspace_name call
InitFmt ==
    /\ RegIdle
    /\ ExtIdle
    /\ WSIdle
    /\ baseKind = "absent"
    /\ entries = << >>
    /\ tsCall \in {<<"format_workspace_name", d, i>> : d \in Dates, i \in FmtIndices}
    /\ tsRet = [kind |-> "none"]

FormatWorkspaceName ==
    /\ tsRet.kind = "none"
    /\ tsRet' = [kind |-> "str", s |-> format_workspace_name(tsCall[2], tsCall[3])]
    /\ UNCHANGED <<baseKind, entries, tsCall, regVars, wsVars, extVars>>

NextFmt == FormatWorkspaceName

SpecFmt == InitFmt /\ [][NextFmt]_vars

(***************************************************************************)
(* Claims about workspace names.                                           *)
(***************************************************************************)
\* the characters of the names, in code point order
CodePoints ==
    <<" ", "+", "-", "0", "1", "2", "3", "4", "5", "6", "7", "8", "9", "_">>

Ord(ch) == CHOOSE i \in 1..Len(CodePoints) : CodePoints[i] = ch

\* a < b as Python compares two str
StrLess(a, b) ==
    \E k \in 0..Len(a) :
        /\ k <= Len(b)
        /\ SubSeq(a, 1, k) = SubSeq(b, 1, k)
        /\ \/ k = Len(a) /\ k < Len(b)
           \/ k < Len(a) /\ k < Len(b) /\ Ord(a[k + 1]) < Ord(b[k + 1])

Formatted == tsRet.kind = "str"

\* the name is date_tag, an underscore and the index in at least 3 digits
C11_Padded ==
    LET date_tag == tsCall[2]
        index == tsCall[3]
        suffix == SubSeq(tsRet.s, Len(date_tag) + 2, Len(tsRet.s))
    IN  /\ StartsWith(tsRet.s, date_tag \o <<"_">>)
        /\ AllDigits(suffix)
        /\ Len(suffix) >= 3
        /\ Len(suffix) > 3 => suffix[1] # "0"
        /\ DecimalValue(suffix) = index

\* the suffix reads back as the index, the way find_next_index reads it
C11_RoundTrip ==
    LET fields == Split(tsRet.s, "_")
    IN  /\ Len(fields) = 2
        /\ PyInt(fields[2]) = [ok |-> TRUE, val |-> tsCall[3]]

\* C11 as stated: for every 8-digit date_tag and every index >= 1 the name
\* is date_tag, an underscore and the index zero-padded to at least 3
\* digits, never truncated; the name is strictly increasing in the index
\* (the name of index + 1 is greater, as strings compare); and its suffix
\* parses back to the index.
C11_Original ==
    (Formatted /\ tsCall[3] >= 1)
    => /\ C11_Padded
       /\ C11_RoundTrip
       /\ StrLess(tsRet.s, format_workspace_name(tsCall[2], tsCall[3] + 1))

\* C11 (amended): for every 8-digit date_tag and every index >= 1 the name
\* is date_tag, an underscore and the index zero-padded to at least 3
\* digits, never truncated, and its suffix parses back to the index; the
\* name of index + 1 is the greater string exactly when it is as long as
\* the name of index, and is the smaller string when it is one digit longer.
C11_FormatName ==
    (Formatted /\ tsCall[3] >= 1)
    => LET next == format_workspace_name(tsCall[2], tsCall[3] + 1)
       IN  /\ C11_Padded
           /\ C11_RoundTrip
           /\ Len(next) = Len(tsRet.s) => StrLess(tsRet.s, next)
           /\ Len(next) > Len(tsRet.s) => StrLess(next, tsRet.s)
           /\ Len(next) >= Len(tsRet.s)

\* index 999 has been formatted: the next name has one digit more
C11_Witness ==
    /\ Formatted
    /\ tsCall[3] = 999
    /\ tsRet.s = tsCall[2] \o <<"_", "9", "9", "9">>

(***************************************************************************)
(* Workspace and WorkspaceCreator.                                         *)
(***************************************************************************)
\* an optional argument: None, or a value
NoneArg == [some |-> FALSE]

Some(v) == [some |-> TRUE, v |-> v]

\* "if subdirs:" is false for None and for the empty list
Truthy(arg) == arg.some /\ arg.v # << >>

\* paths are sequences of names; base_dir and ./outputs
BaseDir == << <<"b", "a", "s", "e">> >>
OutputsPath == << <<"o", "u", "t", "p", "u", "t", "s">> >>

\* path / name: a name with separators adds one component per part
Join(path, name) == path \o Split(name, "/")

\* the subdirs callers ask for
SubA == <<"a">>
SubB == <<"b">>
SubNested == <<"a", "/", "b">>
SubUnder == <<"_", "t">>

\* the prefixes callers ask for
PrefixM == <<"m">>
PrefixM1 == <<"m", "1">>
PrefixR == <<"r">>

\* the loop putting every new key in front
RECURSIVE WorkspaceSubdirsFront(_, _, _)
WorkspaceSubdirsFront(d, root, todo) ==
    IF todo = << >> THEN d
    ELSE WorkspaceSubdirsFront(
             DictSetItemFront(d, Head(todo), Join(root, Head(todo))),
             root, Tail(todo))

\* the loop of Workspace.__init__ over subdirs
RECURSIVE WorkspaceSubdirs(_, _, _)
WorkspaceSubdirs(d, root, todo) ==
    IF todo = << >> THEN d
    ELSE WorkspaceSubdirs(DictSetItem(d, Head(todo), Join(root, Head(todo))),
                          root, Tail(todo))

\* Workspace(root, subdirs)
Workspace(root, subdirs) ==
    [kind |-> "Workspace",
     root |-> root,
     subdirs |-> IF Truthy(subdirs)
                 THEN WorkspaceSubdirs(DictEmpty, root, subdirs.v)
                 ELSE DictEmpty]

\* the directories below the child name of base_dir, as relative paths
SubsOf(s, name) == IF name \in DOMAIN s THEN s[name] ELSE {}

\* the loop that makes no directory
MkSubdirsSkipped(made, todo) == [ok |-> TRUE, made |-> made]

\* the loop "(workspace_path / subdir).mkdir(exist_ok=True)": a directory
\* whose parent is missing is not created and FileNotFoundError ends the loop
RECURSIVE MkSubdirs(_, _)
MkSubdirs(made, todo) ==
    IF todo = << >> THEN [ok |-> TRUE, made |-> made]
    ELSE LET rel == Split(Head(todo), "/")
             parent == SubSeq(rel, 1, Len(rel) - 1)
         IN  IF rel \in made THEN MkSubdirs(made, Tail(todo))
             ELSE IF parent = << >> \/ parent \in made
                  THEN MkSubdirs(made \cup {rel}, Tail(todo))
                  ELSE [ok |-> FALSE, made |-> made]

\* one numbering for all prefixes: the number of children, plus one
FirstFreeShared(ents, prefix, index) == Cardinality(DOMAIN ents) + 1

\* the loop left at once, whether or not the name exists
FirstFreeUnchecked(ents, prefix, index) == index

\* the loop of _create_numbered_dir, started at index
RECURSIVE FirstFree(_, _, _)
FirstFree(ents, prefix, index) ==
    IF (prefix \o Digits(index)) \in DOMAIN ents
    THEN FirstFree(ents, prefix, index + 1)
    ELSE index

\* the probing started above 1
_create_numbered_dir_from2(ents, prefix) ==
    LET target == prefix \o Digits(FirstFree(ents, prefix, 2))
    IN  [ok |-> TRUE, name |-> target, ents |-> (target :> TRUE) @@ ents]

\* _create_numbered_dir(base_path, prefix): the first name that does not
\* exist, and base_dir with that directory made
_create_numbered_dir(ents, prefix) ==
    LET target == prefix \o Digits(FirstFree(ents, prefix, 1))
    IN  [ok |-> TRUE, name |-> target, ents |-> (target :> TRUE) @@ ents]

\* the directory named without looking for the next index
_create_timestamped_dir_first(ents, date_str) ==
    LET workspace_name == format_workspace_name(date_str, 1)
    IN  IF workspace_name \notin DOMAIN ents
        THEN [ok |-> TRUE, name |-> workspace_name,
              ents |-> (workspace_name :> TRUE) @@ ents]
        ELSE IF ents[workspace_name]
        THEN [ok |-> TRUE, name |-> workspace_name, ents |-> ents]
        ELSE [ok |-> FALSE, name |-> workspace_name, ents |-> ents]

\* _create_timestamped_dir(base_path): mkdir(exist_ok=True) accepts an
\* existing directory and raises FileExistsError for an existing file
_create_timestamped_dir(ents, date_str) ==
    LET next_index == find_next_index("dir", ents, date_str).n
        workspace_name == format_workspace_name(date_str, next_index)
    IN  IF workspace_name \notin DOMAIN ents
        THEN [ok |-> TRUE, name |-> workspace_name,
              ents |-> (workspace_name :> TRUE) @@ ents]
        ELSE IF ents[workspace_name]
        THEN [ok |-> TRUE, name |-> workspace_name, ents |-> ents]
        ELSE [ok |-> FALSE, name |-> workspace_name, ents |-> ents]

\* no child of base_dir is named for the date
NoEntryFor(ents, date_str) ==
    \A n \in DOMAIN ents : ~StartsWith(n, date_str)

AllocCount(a, prefix) == IF prefix \in DOMAIN a THEN a[prefix] ELSE 0

\* a create call; the date is read by _create_timestamped_dir only
CreateCall(date_str, base_dir, subdirs, prefix) ==
    [date |-> IF base_dir.some /\ ~prefix.some THEN date_str ELSE << >>,
     base_dir |-> base_dir, subdirs |-> subdirs, prefix |-> prefix]

\* the degraded mode handing the subdirs on to the Workspace
CreateOutputsWithSubdirs(date_str, subdirs, prefix) ==
    /\ wsCall' = CreateCall(date_str, NoneArg, subdirs, prefix)
    /\ IF outputs = "file"
       THEN /\ wsRet' = [kind |-> "FileExistsError"]
            /\ outputs' = outputs
       ELSE /\ wsRet' = Workspace(OutputsPath, subdirs)
            /\ outputs' = "dir"
    /\ streak' = 0
    /\ UNCHANGED <<baseKind, entries, subs, allocs>>

\* WorkspaceCreator.create(None, subdirs, prefix)
CreateOutputs(date_str, subdirs, prefix) ==
    /\ wsCall' = CreateCall(date_str, NoneArg, subdirs, prefix)
    /\ IF outputs = "file"
       THEN /\ wsRet' = [kind |-> "FileExistsError"]
            /\ outputs' = outputs
       ELSE /\ wsRet' = Workspace(OutputsPath, NoneArg)
            /\ outputs' = "dir"
    /\ streak' = 0
    /\ UNCHANGED <<baseKind, entries, subs, allocs>>

\* WorkspaceCreator.create(base_dir, subdirs, prefix) on date_str
CreateIn(date_str, subdirs, prefix) ==
    /\ wsCall' = CreateCall(date_str, Some(BaseDir), subdirs, prefix)
    /\ IF baseKind = "file"
       THEN /\ wsRet' = [kind |-> "FileExistsError"]
            /\ streak' = 0
            /\ UNCHANGED <<baseKind, entries, subs, allocs>>
       ELSE LET made == IF prefix.some
                        THEN _create_numbered_dir(entries, prefix.v)
                        ELSE _create_timestamped_dir(entries, date_str)
                below == IF Truthy(subdirs)
                         THEN MkSubdirs(SubsOf(subs, made.name), subdirs.v)
                         ELSE [ok |-> TRUE, made |-> SubsOf(subs, made.name)]
                done == made.ok /\ below.ok
            IN  /\ baseKind' = "dir"
                /\ entries' = made.ents
                /\ subs' = IF made.ok THEN (made.name :> below.made) @@ subs
                           ELSE subs
                /\ wsRet' = IF ~made.ok THEN [kind |-> "FileExistsError"]
                            ELSE IF ~below.ok THEN [kind |-> "FileNotFoundError"]
                            ELSE Workspace(Join(BaseDir, made.name), subdirs)
                /\ streak' = IF done /\ ~prefix.some
                             THEN IF /\ streak >= 1
                                     /\ wsCall.date = date_str
                                  THEN streak + 1
                                  ELSE IF NoEntryFor(entries, date_str) THEN 1
                                  ELSE 0
                             ELSE 0
                /\ allocs' = IF done /\ prefix.some
                             THEN (prefix.v :> (AllocCount(allocs, prefix.v) + 1))
                                      @@ allocs
                             ELSE allocs
    /\ UNCHANGED outputs

\* the body of WorkspaceCreator.create
WorkspaceCreatorCreate(date_str, base_dir, subdirs, prefix) ==
    IF base_dir.some
    THEN CreateIn(date_str, subdirs, prefix)
    ELSE CreateOutputs(date_str, subdirs, prefix)

\* WorkspaceCreator.create called directly
WorkspaceCreate(date_str, base_dir, subdirs, prefix) ==
    /\ WorkspaceCreatorCreate(date_str, base_dir, subdirs, prefix)
    /\ UNCHANGED <<tsCall, tsRet, attrCall, attrRet, creatorCalls, pochiCall,
                   regVars, extVars>>

\* the children base_dir may hold at the start
WSChildNames ==
    { Date1 \o <<"_", "0", "0", "1">>,
      Date1 \o <<"_", "0", "0", "2">>,
      Date1 \o <<"_", "-", "1">>,
      Date2 \o <<"_", "0", "0", "9">>,
      PrefixM \o <<"2">> }

WSListings ==
    UNION {[S -> BOOLEAN] : S \in {T \in SUBSET WSChildNames : Cardinality(T) < MaxChildren}}

\* the arguments callers pass
SubdirArgs ==
    {NoneArg, Some(<< >>), Some(<<SubB, SubA, SubB>>), Some(<<SubNested>>)}
PrefixArgs == {NoneArg, Some(PrefixM)}

InitWS ==
    /\ RegIdle
    /\ ExtIdle
    /\ tsCall = << >>
    /\ tsRet = [kind |-> "none"]
    /\ \/ baseKind \in {"absent", "file"} /\ entries = << >>
       \/ baseKind = "dir" /\ entries \in WSListings
    /\ outputs \in {"absent", "file"}
    /\ subs = << >>
    /\ wsCall = << >>
    /\ wsRet = [kind |-> "none"]
    /\ streak = 0
    /\ allocs = << >>
    /\ attrCall = << >>
    /\ attrRet = [kind |-> "none"]
    /\ creatorCalls = << >>
    /\ pochiCall = << >>

NextWS ==
    \E date_str \in Dates, base_dir \in {NoneArg, Some(BaseDir)},
       subdirs \in SubdirArgs, prefix \in PrefixArgs :
        /\ Cardinality(DOMAIN entries) < MaxChildren
        /\ WorkspaceCreate(date_str, base_dir, subdirs, prefix)

SpecWS == InitWS /\ [][NextWS]_vars

\* numbered allocation with several prefixes in a base_dir that starts
\* empty or absent
InitPrefix ==
    /\ RegIdle
    /\ ExtIdle
    /\ WSIdle
    /\ tsCall = << >>
    /\ tsRet = [kind |-> "none"]
    /\ baseKind \in {"absent", "dir"}
    /\ entries = << >>

NextPrefix ==
    \E prefix \in {PrefixM, PrefixM1, PrefixR} :
        /\ Cardinality(DOMAIN entries) < MaxAllocs
        /\ WorkspaceCreate(Date1, Some(BaseDir), NoneArg, Some(prefix))

SpecPrefix == InitPrefix /\ [][NextPrefix]_vars

\* the names looked up on a Workspace
RootProperty == <<"r", "o", "o", "t">>
RootField == <<"_", "r", "o", "o", "t">>
SubZ == <<"z">>
AttrNames == {SubA, SubB, SubZ, SubUnder, RootProperty, RootField}

\* Workspace.__getattr__(name)
__getattr__(ws, name) ==
    IF StartsWith(name, <<"_">>)
    THEN [kind |-> "AttributeError", what |-> "attribute", name |-> name,
          available |-> << >>]
    ELSE IF DictHas(ws.subdirs, name)
    THEN [kind |-> "Path", path |-> DictGet(ws.subdirs, name)]
    ELSE [kind |-> "AttributeError", what |-> "subdir", name |-> name,
          available |-> DictKeys(ws.subdirs)]

\* ws.<name>: the attributes of the instance and of the class are found
\* first, __getattr__ is called for the names that are not among them
getattr(ws, name) ==
    IF name \in {RootField, RootProperty}
    THEN [kind |-> "Path", path |-> ws.root]
    ELSE __getattr__(ws, name)

GetAttr(name) ==
    /\ wsRet.kind = "Workspace"
    /\ attrCall' = name
    /\ attrRet' = getattr(wsRet, name)
    /\ UNCHANGED <<outputs, subs, wsCall, wsRet, streak, allocs, creatorCalls,
                   pochiCall, tsVars, regVars, extVars>>

\* the Workspace objects callers construct
WorkspaceRoots == {OutputsPath, Join(BaseDir, PrefixM \o <<"1">>)}
WorkspaceSubdirArgs ==
    {NoneArg} \cup {Some(l) : l \in SeqsUpTo({SubA, SubB, SubUnder, RootProperty},
                                             MaxSubdirs)}

\* ws = Workspace(root, subdirs) has run
InitAttr ==
    /\ RegIdle
    /\ ExtIdle
    /\ tsCall = << >>
    /\ tsRet = [kind |-> "none"]
    /\ baseKind = "absent"
    /\ entries = << >>
    /\ outputs = "absent"
    /\ subs = << >>
    /\ \E root \in WorkspaceRoots, subdirs \in WorkspaceSubdirArgs :
           /\ wsCall = [root |-> root, subdirs |-> subdirs]
           /\ wsRet = Workspace(root, subdirs)
    /\ streak = 0
    /\ allocs = << >>
    /\ attrCall = << >>
    /\ attrRet = [kind |-> "none"]
    /\ creatorCalls = << >>
    /\ pochiCall = << >>

NextAttr == \E name \in AttrNames : GetAttr(name)

SpecAttr == InitAttr /\ [][NextAttr]_vars

\* the prefix keyword of a create_workspace call: left out, or passed
NoKeyword == [passed |-> FALSE]

Keyword(value) == [passed |-> TRUE, value |-> value]

PrefixKeywords == {NoKeyword} \cup {Keyword(prefix) : prefix \in PrefixArgs}

\* the parameter of WorkspaceCreator.create a call leaves to its default
WithDefaults(kwargs) ==
    [subdirs |-> kwargs.subdirs,
     prefix |-> IF "prefix" \in DOMAIN kwargs THEN kwargs.prefix ELSE NoneArg]

\* Pochi.create_workspace(base_dir, subdirs) and, with the keyword passed,
\* Pochi.create_workspace(base_dir, subdirs, prefix=...): the method has no
\* parameter prefix, the call raises TypeError before the body runs; the
\* body calls create(base_dir, subdirs=subdirs)
PochiCreateWorkspace(date_str, base_dir, subdirs, prefix) ==
    /\ pochiCall' = [base_dir |-> base_dir, subdirs |-> subdirs,
                     prefix |-> prefix]
    /\ IF prefix.passed
       THEN /\ wsRet' = [kind |-> "TypeError"]
            /\ UNCHANGED <<outputs, baseKind, entries, subs, wsCall, streak,
                           allocs, creatorCalls>>
       ELSE /\ creatorCalls' = Append(creatorCalls,
                                      [args |-> <<base_dir>>,
                                       kwargs |-> [subdirs |-> subdirs]])
            /\ WorkspaceCreatorCreate(date_str, base_dir, subdirs, NoneArg)
    /\ UNCHANGED <<tsCall, tsRet, attrCall, attrRet, regVars, extVars>>

NextFacade ==
    \E date_str \in Dates, base_dir \in {NoneArg, Some(BaseDir)},
       subdirs \in {NoneArg, Some(<<SubA>>)}, prefix \in PrefixKeywords :
        /\ Cardinality(DOMAIN entries) < MaxChildren
        /\ Len(creatorCalls) < MaxCalls
        /\ PochiCreateWorkspace(date_str, base_dir, subdirs, prefix)

\* Pochi() with the WorkspaceCreator of the package injected
SpecFacade == InitWS /\ [][NextFacade]_vars

(***************************************************************************)
(* Claims about WorkspaceCreator and Workspace.                            *)
(***************************************************************************)
Returned == wsRet.kind = "Workspace"

\* the last call was create(base_dir, ...) without prefix / with a prefix
TimestampMode == wsCall # << >> /\ wsCall.base_dir.some /\ ~wsCall.prefix.some
PrefixMode == wsCall # << >> /\ wsCall.base_dir.some /\ wsCall.prefix.some

\* C12: starting from a base_dir with no entry for the current date, the
\* i-th of k consecutive successful create(base_dir) calls without prefix on
\* the same date returns the root base_dir/date_<i in 3 digits>.
C12_ConsecutiveIndices ==
    streak >= 1
    => /\ Returned
       /\ TimestampMode
       /\ wsRet.root = Join(BaseDir, format_workspace_name(wsCall.date, streak))

\* three consecutive calls have returned date_001, date_002, date_003
C12_Witness ==
    /\ streak = 3
    /\ Returned
    /\ wsRet.root = Join(BaseDir, wsCall.date \o <<"_", "0", "0", "3">>)
    /\ \A i \in 1..3 : format_workspace_name(wsCall.date, i) \in DOMAIN entries

\* the name of the root the last call returned, and that of the next one
RootName == wsRet.root[Len(wsRet.root)]
RootName1 == wsRet'.root[Len(wsRet'.root)]

\* C13: every successful create call with a base_dir, in timestamp mode or
\* in prefix mode, returns a root that did not exist under base_dir before
\* the call, whatever base_dir contained; and since no call removes a child
\* of base_dir, no two successful calls return the same root.
C13_FreshRoot ==
    [][/\ \A n \in DOMAIN entries : n \in DOMAIN entries'
       /\ (wsRet'.kind = "Workspace" /\ wsCall'.base_dir.some)
          => /\ wsRet'.root = Join(BaseDir, RootName1)
             /\ RootName1 \notin DOMAIN entries
             /\ RootName1 \in DOMAIN entries'
             /\ entries'[RootName1]]_vars

\* a root was allocated next to a regular file and a directory with a
\* signed suffix
C13_Witness ==
    /\ Returned
    /\ TimestampMode
    /\ RootName = Date1 \o <<"_", "0", "0", "0">>
    /\ \E n \in DOMAIN entries : ~entries[n]
    /\ (Date1 \o <<"_", "-", "1">>) \in DOMAIN entries

\* C14: in prefix mode create(base_dir, prefix=p) creates and returns
\* base_dir/p{n}, n the smallest positive integer such that no entry named
\* p{n} existed in base_dir before the call.
C14_SmallestFree ==
    [][(wsRet'.kind = "Workspace" /\ wsCall'.base_dir.some /\ wsCall'.prefix.some)
       => LET p == wsCall'.prefix.v
          IN  \E n \in 1..(Cardinality(DOMAIN entries) + 1) :
                  /\ wsRet'.root = Join(BaseDir, p \o Digits(n))
                  /\ (p \o Digits(n)) \notin DOMAIN entries
                  /\ \A k \in 1..(n - 1) : (p \o Digits(k)) \in DOMAIN entries
                  /\ DOMAIN entries' = DOMAIN entries \cup {p \o Digits(n)}
                  /\ entries'[p \o Digits(n)]
                  /\ \A c \in DOMAIN entries : entries'[c] = entries[c]]_vars

\* m2 was there, the first call reused m1 and the second went past m2 to m3
C14_Witness ==
    /\ Returned
    /\ PrefixMode
    /\ RootName = PrefixM \o <<"3">>
    /\ (PrefixM \o <<"1">>) \in DOMAIN entries
    /\ (PrefixM \o <<"2">>) \in DOMAIN entries
    /\ ~entries[PrefixM \o <<"2">>]

\* long is short followed by decimal digits
DigitsAfter(long, short) ==
    /\ Len(long) > Len(short)
    /\ StartsWith(long, short)
    /\ AllDigits(SubSeq(long, Len(short) + 1, Len(long)))

NumberedAsCounted ==
    RootName = wsCall.prefix.v \o Digits(AllocCount(allocs, wsCall.prefix.v))

\* C15 as stated: for any two different prefixes used in the same base_dir,
\* which started empty, the i-th allocation with p is named p{i} whatever
\* was allocated with the other prefixes.
C15_Original == (Returned /\ PrefixMode) => NumberedAsCounted

\* C15 (amended): in a base_dir that started empty, the i-th allocation with
\* p is named p{i} whatever was allocated with other prefixes, as long as
\* none of those is p followed by decimal digits and p is none of those
\* followed by decimal digits.
C15_IndependentPrefixes ==
    (/\ Returned
     /\ PrefixMode
     /\ \A q \in DOMAIN allocs :
            ~DigitsAfter(q, wsCall.prefix.v) /\ ~DigitsAfter(wsCall.prefix.v, q))
    => NumberedAsCounted

\* the second r after allocations with m and m1 is r2
C15_Witness ==
    /\ Returned
    /\ PrefixMode
    /\ wsCall.prefix.v = PrefixR
    /\ AllocCount(allocs, PrefixR) = 2
    /\ AllocCount(allocs, PrefixM) >= 1
    /\ AllocCount(allocs, PrefixM1) >= 1
    /\ RootName = PrefixR \o <<"2">>

DegradedMode == wsCall # << >> /\ ~wsCall.base_dir.some

\* C16: create without base_dir, with ./outputs absent or a directory,
\* makes the one directory outputs (base_dir and everything below it stay
\* as they are), leaves an existing outputs as it is without failing, and
\* returns a Workspace rooted at outputs whose subdirectory mapping is empty
\* whatever subdirs and prefix were passed.
C16_DegradedMode ==
    [][(~wsCall'.base_dir.some /\ outputs # "file")
       => /\ wsRet' = [kind |-> "Workspace", root |-> OutputsPath,
                       subdirs |-> DictEmpty]
          /\ outputs' = "dir"
          /\ UNCHANGED <<baseKind, entries, subs>>]_vars

\* outputs is there after a call that passed subdirs and a prefix
C16_Witness ==
    /\ DegradedMode
    /\ Returned
    /\ Truthy(wsCall.subdirs)
    /\ wsCall.prefix.some
    /\ wsRet.root = OutputsPath
    /\ wsRet.subdirs = DictEmpty
    /\ outputs = "dir"

\* path is a directory on disk
IsDir(path) ==
    IF path = OutputsPath THEN outputs = "dir"
    ELSE IF SubSeq(path, 1, 1) # BaseDir THEN FALSE
    ELSE IF Len(path) = 1 THEN baseKind = "dir"
    ELSE /\ baseKind = "dir"
         /\ path[2] \in DOMAIN entries
         /\ entries[path[2]]
         /\ Len(path) > 2 => SubSeq(path, 3, Len(path)) \in SubsOf(subs, path[2])

\* the names in the subdirs argument
Supplied(arg) == IF arg.some THEN {arg.v[i] : i \in 1..Len(arg.v)} ELSE {}

\* root and every mapped path are directories, each path is root / key
MappingOnDisk ==
    /\ IsDir(wsRet.root)
    /\ \A i \in 1..Len(wsRet.subdirs) :
           /\ wsRet.subdirs[i][2] = Join(wsRet.root, wsRet.subdirs[i][1])
           /\ IsDir(wsRet.subdirs[i][2])

MappedKeys == {wsRet.subdirs[i][1] : i \in 1..Len(wsRet.subdirs)}

\* C17 as stated: for every Workspace create returns, the root and every
\* root/key exist on disk when it is returned, and the keys of the mapping
\* are exactly the supplied subdirs, each path being root joined with the
\* name.
C17_Original ==
    Returned => (MappingOnDisk /\ MappedKeys = Supplied(wsCall.subdirs))

\* C17 (amended): for every Workspace create returns, the root and every
\* root/key exist on disk when it is returned, each path being root joined
\* with the name; the keys of the mapping are exactly the supplied subdirs
\* when a base_dir was given, and there is no key when it was not.
C17_MappingOnDisk ==
    Returned
    => /\ MappingOnDisk
       /\ MappedKeys = IF wsCall.base_dir.some THEN Supplied(wsCall.subdirs)
                       ELSE {}

\* a Workspace with the subdirectories b and a under a fresh root
C17_Witness ==
    /\ Returned
    /\ wsCall.base_dir.some
    /\ wsCall.subdirs = Some(<<SubB, SubA, SubB>>)
    /\ DictKeys(wsRet.subdirs) = <<SubB, SubA>>
    /\ IsDir(Join(wsRet.root, SubA))

Looked == attrCall # << >>

\* C18: for every name in the subdirs list a Workspace was built with,
\* attribute-style lookup of that name returns root joined with that name.
C18_LookupReturnsPath ==
    (Looked /\ attrCall \in Supplied(wsCall.subdirs))
    => attrRet = [kind |-> "Path", path |-> Join(wsRet.root, attrCall)]

\* the names of list in the order of their first occurrence
RECURSIVE FirstOccurrences(_)
FirstOccurrences(list) ==
    IF list = << >> THEN << >>
    ELSE LET front == FirstOccurrences(SubSeq(list, 1, Len(list) - 1))
             last == list[Len(list)]
         IN  IF \E i \in 1..Len(front) : front[i] = last THEN front
             ELSE Append(front, last)

NoSuchSubdir(name) ==
    [kind |-> "AttributeError", what |-> "subdir", name |-> name,
     available |-> IF wsCall.subdirs.some
                   THEN FirstOccurrences(wsCall.subdirs.v) ELSE << >>]

\* C19 as stated: looking up a name that is not in the subdirs and does not
\* start with an underscore raises the no-such-subdirectory error, whose
\* message names the requested key and lists the available keys in their
\* given order; the lookup leaves root and mapping unchanged.
C19_Original ==
    [][(attrCall' \notin Supplied(wsCall.subdirs) /\ ~StartsWith(attrCall', <<"_">>))
       => (attrRet' = NoSuchSubdir(attrCall') /\ wsRet' = wsRet)]_vars

\* C19 (amended): looking up a name that is not in the subdirs, does not
\* start with an underscore and is not root (the property that returns the
\* root) raises the no-such-subdirectory error, whose message names the
\* requested key and lists the available keys in their given order; the
\* lookup leaves root and mapping unchanged.
C19_NoSuchSubdir ==
    [][(/\ attrCall' \notin Supplied(wsCall.subdirs)
        /\ ~StartsWith(attrCall', <<"_">>)
        /\ attrCall' # RootProperty)
       => (attrRet' = NoSuchSubdir(attrCall') /\ wsRet' = wsRet)]_vars

\* z was looked up on Workspace(root, ["b", "a"])
C19_Witness ==
    /\ wsCall.subdirs = Some(<<SubB, SubA>>)
    /\ attrCall = SubZ
    /\ attrRet.kind = "AttributeError"
    /\ attrRet.name = SubZ
    /\ attrRet.available = <<SubB, SubA>>

(***************************************************************************)
(* Claims about the facade.                                                *)
(***************************************************************************)
\* C20: Pochi.create_workspace(base_dir, subdirs, prefix) calls the
\* injected creator's create exactly once, with the same base_dir, subdirs
\* and prefix (None when the caller leaves prefix out), and returns what the
\* creator returned.
C20_Delegates ==
    [][pochiCall' # pochiCall
       => /\ Len(creatorCalls') = Len(creatorCalls) + 1
          /\ LET received == creatorCalls'[Len(creatorCalls')]
             IN  /\ received.args = <<pochiCall'.base_dir>>
                 /\ WithDefaults(received.kwargs)
                        = [subdirs |-> pochiCall'.subdirs,
                           prefix |-> IF pochiCall'.prefix.passed
                                      THEN pochiCall'.prefix.value
                                      ELSE NoneArg]
                 /\ wsCall'.base_dir = pochiCall'.base_dir
                 /\ wsCall'.subdirs = pochiCall'.subdirs
                 /\ wsCall'.prefix = WithDefaults(received.kwargs).prefix]_vars

(***************************************************************************)
(* DirectoryCreator.                                                       *)
(***************************************************************************)
\* Path(path): the names between the separators, without the empty ones
\* and the dots
PathOf(path) ==
    SelectSeq(Split(path, "/"), LAMBDA name : name # << >> /\ name # <<".">>)

Parent(p) == SubSeq(p, 1, Len(p) - 1)

\* the directories above p, the working directory left out
Ancestors(p) == {SubSeq(p, 1, k) : k \in 1..(Len(p) - 1)}

\* the working directory << >> is always there
OnDisk(dirs, files, p) == p = << >> \/ p \in dirs \/ p \in files

IsDirOn(dirs, p) == p = << >> \/ p \in dirs

\* os.mkdir(p): the errno it fails with, or "ok"
OsMkdir(dirs, files, p) ==
    IF OnDisk(dirs, files, p) THEN "FileExistsError"
    ELSE IF \E q \in Ancestors(p) : q \in files THEN "NotADirectoryError"
    ELSE IF ~IsDirOn(dirs, Parent(p)) THEN "FileNotFoundError"
    ELSE "ok"

\* Path.mkdir(parents=True, exist_ok=True) whatever parents was passed
PathMkdirAlwaysParents(dirs, files, p, parents) ==
    LET made == OsMkdir(dirs, files, p)
    IN  IF made \in {"ok", "FileNotFoundError"}
        THEN [kind |-> "ok", dirs |-> dirs \cup Ancestors(p) \cup {p}]
        ELSE IF made = "FileExistsError" /\ IsDirOn(dirs, p)
        THEN [kind |-> "ok", dirs |-> dirs]
        ELSE [kind |-> made, dirs |-> dirs]

\* Path.mkdir(parents=parents, exist_ok=True): a missing parent is made
\* first when parents is set; an existing directory is accepted
RECURSIVE PathMkdir(_, _, _, _)
PathMkdir(dirs, files, p, parents) ==
    LET made == OsMkdir(dirs, files, p)
    IN  IF made = "ok" THEN [kind |-> "ok", dirs |-> dirs \cup {p}]
        ELSE IF made = "FileNotFoundError"
        THEN IF ~parents \/ p = << >>
             THEN [kind |-> made, dirs |-> dirs]
             ELSE LET above == PathMkdir(dirs, files, Parent(p), TRUE)
                  IN  IF above.kind = "ok"
                      THEN PathMkdir(above.dirs, files, p, FALSE)
                      ELSE above
        ELSE IF made = "FileExistsError" /\ IsDirOn(dirs, p)
        THEN [kind |-> "ok", dirs |-> dirs]
        ELSE [kind |-> made, dirs |-> dirs]

\* DirectoryCreator.create(path, parents)
DirectoryCreate(path, parents) ==
    LET dir_path == PathOf(path)
        made == PathMkdir(dDirs, dFiles, dir_path, parents)
    IN  /\ dCall' = [path |-> path, parents |-> parents]
        /\ dDirs' = made.dirs
        /\ dRet' = IF made.kind = "ok" THEN [kind |-> "Path", path |-> dir_path]
                   ELSE [kind |-> made.kind]
        /\ UNCHANGED dFiles
        /\ UNCHANGED dirOthers

DirA == <<"a">>
DirB == <<"b">>
DirC == <<"c">>
DirF == <<"f">>

\* the path arguments, as strings
DirPathArgs ==
    { <<"a">>, <<"a", "/", "b">>, <<"a", "/", "b", "/", "c">>,
      <<"a", "/", "/", "b", "/">>, <<".", "/", "a">>, << >>,
      <<"f">>, <<"f", "/", "c">>, <<"f", "/", "b", "/", "c">>, <<"b", "/", "c">> }

\* the disk at the start: a chain of directories and at most one file
InitDir ==
    /\ RegIdle
    /\ WSIdle
    /\ tsCall = << >>
    /\ tsRet = [kind |-> "none"]
    /\ baseKind = "absent"
    /\ entries = << >>
    /\ dDirs \in {{}, {<<DirA>>}, {<<DirA>>, <<DirA, DirB>>},
                  {<<DirA>>, <<DirA, DirB>>, <<DirA, DirB, DirC>>}}
    /\ dFiles \in {{}, {<<DirF>>}}
    /\ dCall = << >>
    /\ dRet = [kind |-> "none"]
    /\ dirOthersIdle

NextDir == \E path \in DirPathArgs, parents \in BOOLEAN : DirectoryCreate(path, parents)

SpecDir == InitDir /\ [][NextDir]_vars

(***************************************************************************)
(* Claims about DirectoryCreator.                                          *)
(***************************************************************************)
\* no regular file stands where p or a directory above p should be
NoFileInTheWay(files, p) == p \notin files /\ \A q \in Ancestors(p) : q \notin files

\* C21: DirectoryCreator.create(path, parents) returns Path(path) with the
\* directory existing afterwards; on an existing directory it succeeds and
\* changes nothing; with parents=True it makes the missing directories above
\* path as well; with parents=False and the parent missing it raises
\* FileNotFoundError and makes no directory.
C21_DirectoryCreate ==
    [][LET p == PathOf(dCall'.path)
       IN  /\ dRet'.kind = "Path" => (dRet'.path = p /\ IsDirOn(dDirs', p))
           /\ IsDirOn(dDirs, p)
              => (dRet'.kind = "Path" /\ dDirs' = dDirs /\ dFiles' = dFiles)
           /\ (dCall'.parents /\ NoFileInTheWay(dFiles, p))
              => /\ dRet'.kind = "Path"
                 /\ dDirs' = dDirs \cup Ancestors(p) \cup ({p} \ {<< >>})
                 /\ dFiles' = dFiles
           /\ (/\ ~dCall'.parents
               /\ NoFileInTheWay(dFiles, p)
               /\ ~IsDirOn(dDirs, Parent(p)))
              => /\ dRet'.kind = "FileNotFoundError"
                 /\ dDirs' = dDirs
                 /\ dFiles' = dFiles]_vars

\* a/b/c was refused with parents=False while a was missing
C21_Witness ==
    /\ dCall = [path |-> <<"a", "/", "b", "/", "c">>, parents |-> FALSE]
    /\ dRet.kind = "FileNotFoundError"
    /\ dDirs = {}

(***************************************************************************)
(* LoggerFactory.                                                          *)
(***************************************************************************)
\* LoggerFactory._PREFIX
PochiPrefix == <<"p", "o", "c", "h", "i", ".">>

LoggerNames == {<<"a", "p", "p">>, <<"a", ".", "b">>}
LogDirs == {NoneArg, Some(<<"l">>)}
\* logging.DEBUG, logging.INFO
LogLevels == {10, 20}

\* f"{log_dir}"
StrOf(log_dir) == IF log_dir.some THEN log_dir.v ELSE <<"N", "o", "n", "e">>

\* name.replace(".", "_")
ReplaceDots(name) == [i \in 1..Len(name) |-> IF name[i] = "." THEN "_" ELSE name[i]]

\* create_console_handler(level), create_file_handler(log_path, level)
ConsoleHandler(level) ==
    [kind |-> "StreamHandler", path |-> << >>, level |-> level,
     formatter |-> "ColoredFormatter"]

FileHandler(log_path, level) ==
    [kind |-> "FileHandler", path |-> log_path, level |-> level,
     formatter |-> "PlainFormatter"]

\* Path(log_dir) / f"{name.replace('.', '_')}.log"
LogPath(name, log_dir) ==
    Append(PathOf(log_dir.v), ReplaceDots(name) \o <<".", "l", "o", "g">>)

\* the handlers a fresh configuration puts on the logger
ConfiguredHandlers(name, log_dir, level) ==
    <<ConsoleHandler(level)>>
        \o (IF log_dir.some THEN <<FileHandler(LogPath(name, log_dir), level)>>
            ELSE << >>)

\* create without the look into the cache
LoggerFactory_create_uncached(cache, loggers, name, log_dir, level) ==
    LET logger_name == PochiPrefix \o name
        cache_key == logger_name \o <<":">> \o StrOf(log_dir)
    IN  [logger |-> logger_name,
         loggers |-> (logger_name :>
                          [level |-> level,
                           handlers |-> ConfiguredHandlers(name, log_dir, level),
                           propagate |-> FALSE]) @@ loggers,
         cache |-> DictSetItem(cache, cache_key, logger_name)]

\* LoggerFactory.create(name, log_dir, level): logging.getLogger hands out
\* one logger object per logger_name, so the logger is known by that name
LoggerFactory_create(cache, loggers, name, log_dir, level) ==
    LET logger_name == PochiPrefix \o name
        cache_key == logger_name \o <<":">> \o StrOf(log_dir)
    IN  IF DictHas(cache, cache_key)
        THEN [logger |-> DictGet(cache, cache_key), loggers |-> loggers,
              cache |-> cache]
        ELSE [logger |-> logger_name,
              loggers |-> (logger_name :>
                               [level |-> level,
                                handlers |-> ConfiguredHandlers(name, log_dir, level),
                                propagate |-> FALSE]) @@ loggers,
              cache |-> DictSetItem(cache, cache_key, logger_name)]

LoggerCreate(name, log_dir, level) ==
    LET out == LoggerFactory_create(lgCache, lgLoggers, name, log_dir, level)
    IN  /\ lgCall' = [name |-> name, log_dir |-> log_dir, level |-> level]
        /\ lgRet' = [kind |-> "Logger", logger |-> out.logger]
        /\ lgLoggers' = out.loggers
        /\ lgCache' = out.cache
        /\ lgDone' = IF <<name, log_dir>> \in DOMAIN lgDone THEN lgDone
                     ELSE (<<name, log_dir>> :> out.logger) @@ lgDone
        /\ UNCHANGED lgOthers

\* no logger has been created and the class-level cache is empty
InitLog ==
    /\ RegIdle
    /\ WSIdle
    /\ tsCall = << >>
    /\ tsRet = [kind |-> "none"]
    /\ baseKind = "absent"
    /\ entries = << >>
    /\ lgIdle
    /\ lgOthersIdle

NextLog ==
    \E name \in LoggerNames, log_dir \in LogDirs, level \in LogLevels :
        LoggerCreate(name, log_dir, level)

SpecLog == InitLog /\ [][NextLog]_vars

(***************************************************************************)
(* Claims about LoggerFactory.                                             *)
(***************************************************************************)
ReturnedHandlers == lgLoggers[lgRet.logger].handlers

\* C22: whenever create(name, log_dir, level) returns, after any earlier
\* create calls, the returned logger has exactly one handler, the console
\* handler, if log_dir is None, and exactly two, the console handler and
\* then the file handler for log_dir, if log_dir is given.
C22_Handlers ==
    lgRet.kind = "Logger"
    => IF lgCall.log_dir.some
       THEN /\ Len(ReturnedHandlers) = 2
            /\ ReturnedHandlers[1].kind = "StreamHandler"
            /\ ReturnedHandlers[2].kind = "FileHandler"
            /\ ReturnedHandlers[2].path = LogPath(lgCall.name, lgCall.log_dir)
       ELSE /\ Len(ReturnedHandlers) = 1
            /\ ReturnedHandlers[1].kind = "StreamHandler"

\* C23: a create call with the name and the log_dir of an earlier call
\* returns the logger that call returned, adds no handler to it and leaves
\* its handlers as they are.
C23_CachedLogger ==
    [][LET asked == <<lgCall'.name, lgCall'.log_dir>>
       IN  asked \in DOMAIN lgDone
           => /\ lgRet'.logger = lgDone[asked]
              /\ lgLoggers'[lgRet'.logger].handlers
                     = lgLoggers[lgRet'.logger].handlers
              /\ lgLoggers' = lgLoggers]_vars

\* the second create("app", "l", ...) asked for another level and got the
\* logger of the first with its two handlers
C23_Witness ==
    /\ lgRet.kind = "Logger"
    /\ lgCall.name = <<"a", "p", "p">>
    /\ lgCall.log_dir = Some(<<"l">>)
    /\ lgRet.logger = PochiPrefix \o <<"a", "p", "p">>
    /\ Len(ReturnedHandlers) = 2
    /\ ReturnedHandlers[2].path = LogPath(lgCall.name, lgCall.log_dir)
    /\ ReturnedHandlers[1].level # lgCall.level

(***************************************************************************)
(* TimerContext.                                                           *)
(***************************************************************************)
MaxClock == 1500
MaxExits == 2

TimerNames == {<<"A">>, <<"j", "o", "b">>}
TimerLoggers == {NoneArg, Some("logger")}
\* what the body of the with statement ends with: nothing or an exception
BodyOutcomes == {NoneArg, Some("ValueError")}
\* by how much perf_counter moves on, in milliseconds
ClockSteps == {400, 1005}

\* TimerContext(name, logger)
TimerContext(name, logger) ==
    [_name |-> name, _logger |-> logger, _start_time |-> 0, _elapsed |-> 0]

\* f"{elapsed:.3f}" of a number of milliseconds
Format3f(ms) == Digits(ms \div 1000) \o <<".">> \o Format03d(ms % 1000)

FailedTag == <<" ", "(", "f", "a", "i", "l", "e", "d", ")">>

\* f"{name} (failed): {elapsed:.3f}s", f"{name}: {elapsed:.3f}s"
FailedMessage(name, elapsed) ==
    name \o FailedTag \o <<":", " ">> \o Format3f(elapsed) \o <<"s">>

DoneMessage(name, elapsed) == name \o <<":", " ">> \o Format3f(elapsed) \o <<"s">>

\* TimerContext.__enter__
__enter__(timer, now) == [timer EXCEPT !._start_time = now]

\* __exit__ that reports a failed body like a finished one
__exit__untagged(timer, now, exc_type, info, warning, out) ==
    LET elapsed == now - timer._start_time
        message == DoneMessage(timer._name, elapsed)
    IN  [timer |-> [timer EXCEPT !._elapsed = elapsed],
         info |-> IF timer._logger.some THEN Append(info, message) ELSE info,
         warning |-> warning,
         out |-> IF timer._logger.some THEN out ELSE Append(out, message),
         ret |-> "None"]

\* TimerContext.__exit__(exc_type, exc_val, exc_tb): the timer and the three
\* sinks afterwards, and the value returned
__exit__(timer, now, exc_type, info, warning, out) ==
    LET elapsed == now - timer._start_time
    IN  IF exc_type.some
        THEN LET message == FailedMessage(timer._name, elapsed)
             IN  [timer |-> [timer EXCEPT !._elapsed = elapsed],
                  info |-> info,
                  warning |-> IF timer._logger.some THEN Append(warning, message)
                              ELSE warning,
                  out |-> IF timer._logger.some THEN out ELSE Append(out, message),
                  ret |-> "None"]
        ELSE LET message == DoneMessage(timer._name, elapsed)
             IN  [timer |-> [timer EXCEPT !._elapsed = elapsed],
                  info |-> IF timer._logger.some THEN Append(info, message)
                           ELSE info,
                  warning |-> warning,
                  out |-> IF timer._logger.some THEN out ELSE Append(out, message),
                  ret |-> "None"]

Emitted == Len(tmInfo) + Len(tmWarning) + Len(tmOut)

\* with timer: the statement enters the context
WithEnter ==
    /\ tmPc = "ready"
    /\ Emitted < MaxExits
    /\ tmTimer' = __enter__(tmTimer, tmClock)
    /\ tmPc' = "body"
    /\ UNCHANGED <<tmClock, tmInfo, tmWarning, tmOut, tmExit, tmRaised>>
    /\ UNCHANGED tmOthers

\* time passes
ClockTick(step) ==
    /\ tmClock + step <= MaxClock
    /\ tmClock' = tmClock + step
    /\ UNCHANGED <<tmTimer, tmPc, tmInfo, tmWarning, tmOut, tmExit, tmRaised>>
    /\ UNCHANGED tmOthers

\* the body ends, normally or with an exception: the statement calls
\* __exit__ and raises the exception again unless __exit__ returned a true
\* value
WithExit(exc_type) ==
    LET left == __exit__(tmTimer, tmClock, exc_type, tmInfo, tmWarning, tmOut)
    IN  /\ tmPc = "body"
        /\ tmTimer' = left.timer
        /\ tmInfo' = left.info
        /\ tmWarning' = left.warning
        /\ tmOut' = left.out
        /\ tmExit' = [exc_type |-> exc_type, ret |-> left.ret]
        /\ tmRaised' = IF exc_type.some /\ left.ret \notin {"True"} THEN exc_type
                       ELSE NoneArg
        /\ tmPc' = "ready"
        /\ UNCHANGED tmClock
        /\ UNCHANGED tmOthers

\* a timer fresh from TimerFactory.create(name, logger)
InitTimer ==
    /\ RegIdle
    /\ WSIdle
    /\ tsCall = << >>
    /\ tsRet = [kind |-> "none"]
    /\ baseKind = "absent"
    /\ entries = << >>
    /\ tmTimer \in {TimerContext(name, logger) :
                        name \in TimerNames, logger \in TimerLoggers}
    /\ tmClock = 0
    /\ tmPc = "ready"
    /\ tmInfo = << >>
    /\ tmWarning = << >>
    /\ tmOut = << >>
    /\ tmExit = << >>
    /\ tmRaised = NoneArg
    /\ tmOthersIdle

NextTimer ==
    \/ WithEnter
    \/ \E step \in ClockSteps : ClockTick(step)
    \/ \E exc_type \in BodyOutcomes : WithExit(exc_type)

SpecTimer == InitTimer /\ [][NextTimer]_vars

(***************************************************************************)
(* Claims about TimerContext.                                              *)
(***************************************************************************)
\* sink received message and nothing else
Received(sink, before, message) == sink = Append(before, message)

\* C24: on every exit of a TimerContext exactly one message is emitted: if
\* the body raised, the message "name (failed): <elapsed>s" goes to
\* logger.warning (to print when there is no logger) and logger.info is not
\* called; otherwise the message "name: <elapsed>s" goes to logger.info (or
\* print) and logger.warning is not called; the exception the body raised
\* comes out of the with statement.
C24_OneMessage ==
    [][(tmPc = "body" /\ tmPc' = "ready")
       => LET elapsed == tmClock - tmTimer._start_time
              failed == FailedMessage(tmTimer._name, elapsed)
              done == DoneMessage(tmTimer._name, elapsed)
              logged == tmTimer._logger.some
          IN  /\ Emitted' = Emitted + 1
              /\ tmExit'.exc_type.some
                 => /\ tmInfo' = tmInfo
                    /\ IF logged
                       THEN Received(tmWarning', tmWarning, failed) /\ tmOut' = tmOut
                       ELSE Received(tmOut', tmOut, failed) /\ tmWarning' = tmWarning
              /\ ~tmExit'.exc_type.some
                 => /\ tmWarning' = tmWarning
                    /\ IF logged
                       THEN Received(tmInfo', tmInfo, done) /\ tmOut' = tmOut
                       ELSE Received(tmOut', tmOut, done) /\ tmInfo' = tmInfo
              /\ tmRaised' = tmExit'.exc_type]_vars

\* a body that ran 1005 ms and raised has been reported to logger.warning,
\* after one that finished
C24_Witness ==
    /\ tmPc = "ready"
    /\ tmRaised = Some("ValueError")
    /\ tmTimer._name = <<"j", "o", "b">>
    /\ tmTimer._elapsed = 1005
    /\ Len(tmInfo) = 1
    /\ tmWarning = << <<"j", "o", "b">> \o FailedTag
                         \o <<":", " ", "1", ".", "0", "0", "5", "s">> >>
    /\ tmOut = << >>

(***************************************************************************)
(* StructurePreservingCopier.                                              *)
(***************************************************************************)
MaxOps == 2

\* the root directory and the working directory
RootDir == <<"/">>
Cwd == <<RootDir, <<"w">>>>

\* Path.resolve(): the absolute path (there are no links and no dots)
Resolve(p) == IF p # << >> /\ p[1] = RootDir THEN p ELSE Cwd \o p

\* p.relative_to(base)
RelativeTo(p, base) ==
    IF StartsWith(p, base)
    THEN [kind |-> "Path", path |-> SubSeq(p, Len(base) + 1, Len(p))]
    ELSE [kind |-> "ValueError"]

\* Path(p.name)
NameOf(p) == IF p = << >> THEN << >> ELSE <<p[Len(p)]>>

CopyOp == <<"c", "o", "p", "y">>
MoveOp == <<"m", "o", "v", "e">>

\* f"_{operation}_metadata.txt"
MetadataName(operation) ==
    <<"_">> \o operation
        \o <<"_", "m", "e", "t", "a", "d", "a", "t", "a", ".", "t", "x", "t">>

\* the four lines of the stamp
Stamp(dest, base_dir, file_count, operation, now) ==
    [kind |-> "stamp", operation |-> operation, source |-> base_dir,
     dest |-> dest, timestamp |-> now, file_count |-> Digits(file_count)]

\* _write_metadata that keeps a stamp that is already there
_write_metadata_once(dirs, fs, dest, base_dir, file_count, operation, now) ==
    LET metadata_path == Resolve(Append(dest, MetadataName(operation)))
    IN  IF metadata_path \in dirs THEN [kind |-> "IsADirectoryError", files |-> fs]
        ELSE IF metadata_path \in DOMAIN fs THEN [kind |-> "ok", files |-> fs]
        ELSE [kind |-> "ok",
              files |-> (metadata_path :>
                             Stamp(dest, base_dir, file_count, operation, now)) @@ fs]

\* _write_metadata(dest, base_dir, file_count, operation): write_text
\* replaces what the file held
_write_metadata(dirs, fs, dest, base_dir, file_count, operation, now) ==
    LET metadata_path == Resolve(Append(dest, MetadataName(operation)))
    IN  IF metadata_path \in dirs THEN [kind |-> "IsADirectoryError", files |-> fs]
        ELSE [kind |-> "ok",
              files |-> (metadata_path :>
                             Stamp(dest, base_dir, file_count, operation, now)) @@ fs]

\* the file map without the file at p
Without(fs, p) == [q \in DOMAIN fs \ {p} |-> fs[q]]

\* shutil.copy2(src, dst): into dst when dst is a directory
ShutilCopy2(dirs, fs, src, dst) ==
    LET real_dst == IF dst \in dirs THEN dst \o NameOf(src) ELSE dst
    IN  IF src \in DOMAIN fs /\ src = real_dst
        THEN [kind |-> "SameFileError", files |-> fs]
        ELSE IF src \in dirs \/ real_dst \in dirs
        THEN [kind |-> "IsADirectoryError", files |-> fs]
        ELSE IF src \notin DOMAIN fs
        THEN [kind |-> "FileNotFoundError", files |-> fs]
        ELSE [kind |-> "ok", files |-> (real_dst :> fs[src]) @@ fs]

\* shutil.move(src, dst): os.rename, which replaces a file at the
\* destination and does nothing when source and destination are one file
ShutilMove(dirs, fs, src, dst) ==
    LET real_dst == IF dst \in dirs /\ src # dst THEN dst \o NameOf(src) ELSE dst
    IN  IF dst \in dirs /\ src # dst /\ (real_dst \in dirs \/ real_dst \in DOMAIN fs)
        THEN [kind |-> "Error", files |-> fs]
        ELSE IF src \notin DOMAIN fs
        THEN [kind |-> "FileNotFoundError", files |-> fs]
        ELSE IF src = real_dst THEN [kind |-> "ok", files |-> fs]
        ELSE [kind |-> "ok", files |-> (real_dst :> fs[src]) @@ Without(fs, src)]

\* the relative path when base_dir is not looked at
RelPathBare(src_file, base_path) == NameOf(src_file)

\* the relative path the structure is rebuilt with
RelPath(src_file, base_path) ==
    IF base_path.some
    THEN LET rel == RelativeTo(src_file, base_path.v)
         IN  IF rel.kind = "Path" THEN rel.path ELSE NameOf(src_file)
    ELSE NameOf(src_file)

\* the loop of _transfer over files[i..]
RECURSIVE TransferLoop(_, _, _, _, _, _, _, _)
TransferLoop(dirs, fs, files, i, dest_path, base_path, move, transferred) ==
    IF i > Len(files)
    THEN [kind |-> "ok", dirs |-> dirs, files |-> fs, transferred |-> transferred]
    ELSE LET src_file == Resolve(files[i])
             dest_file == dest_path \o RelPath(src_file, base_path)
             above == PathMkdir(dirs, DOMAIN fs, Parent(Resolve(dest_file)), TRUE)
             moved == IF move
                      THEN ShutilMove(above.dirs, fs, src_file, Resolve(dest_file))
                      ELSE ShutilCopy2(above.dirs, fs, src_file, Resolve(dest_file))
         IN  IF above.kind # "ok"
             THEN [kind |-> above.kind, dirs |-> dirs, files |-> fs,
                   transferred |-> transferred]
             ELSE IF moved.kind # "ok"
             THEN [kind |-> moved.kind, dirs |-> above.dirs, files |-> fs,
                   transferred |-> transferred]
             ELSE TransferLoop(above.dirs, moved.files, files, i + 1, dest_path,
                               base_path, move, Append(transferred, dest_file))

\* _transfer(files, dest, base_dir, move)
_transfer(dirs, fs, files, dest, base_dir, move, now) ==
    LET dest_path == PathOf(dest)
        made == PathMkdir(dirs, DOMAIN fs, Resolve(dest_path), TRUE)
        base_path == IF Truthy(base_dir) THEN Some(Resolve(PathOf(base_dir.v)))
                     ELSE NoneArg
        done == TransferLoop(made.dirs, fs, files, 1, dest_path, base_path, move,
                             << >>)
        stamped == _write_metadata(done.dirs, done.files, dest_path, base_path,
                                   Len(done.transferred),
                                   IF move THEN MoveOp ELSE CopyOp, now)
    IN  IF made.kind # "ok" THEN [kind |-> made.kind, dirs |-> dirs, files |-> fs]
        ELSE IF done.kind # "ok"
        THEN [kind |-> done.kind, dirs |-> done.dirs, files |-> done.files]
        ELSE IF stamped.kind # "ok"
        THEN [kind |-> stamped.kind, dirs |-> done.dirs, files |-> done.files]
        ELSE [kind |-> "list", paths |-> done.transferred, dirs |-> done.dirs,
              files |-> stamped.files]

\* copy(files, dest, base_dir) and move(files, dest, base_dir); the clock
\* may have moved on since the call before
Transfer(files, dest, base_dir, move, tick) ==
    LET out == _transfer(cpDirs, cpFiles, files, dest, base_dir, move, cpNow + tick)
    IN  /\ cpOps < MaxOps
        /\ cpOps' = cpOps + 1
        /\ cpNow' = cpNow + tick
        /\ cpCall' = [op |-> IF move THEN "move" ELSE "copy", files |-> files,
                      dest |-> dest, base_dir |-> base_dir]
        /\ cpDirs' = out.dirs
        /\ cpFiles' = out.files
        /\ cpRet' = IF out.kind = "list" THEN [kind |-> "list", paths |-> out.paths]
                    ELSE [kind |-> out.kind]
        /\ UNCHANGED cpOthers

CopierCopy(files, dest, base_dir, tick) == Transfer(files, dest, base_dir, FALSE, tick)

CopierMove(files, dest, base_dir, tick) == Transfer(files, dest, base_dir, TRUE, tick)

FileDX == <<<<"d">>, <<"x">>>>
FileDSX == <<<<"d">>, <<"s">>, <<"x">>>>
FileEX == <<<<"e">>, <<"x">>>>
FileQX == <<<<"q">>, <<"x">>>>

\* the files arguments: q/x does not exist
FileLists ==
    { << >>, <<FileDX, FileDSX>>, <<FileEX, FileDSX>>, <<FileDX, FileQX>> }
DestArgs == {<<"o", "u", "t">>, <<"d">>}
BaseDirArgs == {NoneArg, Some(<< >>), Some(<<"d">>)}

DataOf(p) == [kind |-> "data", id |-> p]

\* the disk at the start: d/x, d/s/x and e/x under the working directory
InitCopier ==
    /\ RegIdle
    /\ WSIdle
    /\ tsCall = << >>
    /\ tsRet = [kind |-> "none"]
    /\ baseKind = "absent"
    /\ entries = << >>
    /\ cpDirs = {<<RootDir>>, Cwd, Cwd \o <<<<"d">>>>, Cwd \o <<<<"d">>, <<"s">>>>,
                 Cwd \o <<<<"e">>>>}
    /\ cpFiles = [p \in {Resolve(FileDX), Resolve(FileDSX), Resolve(FileEX)}
                      |-> DataOf(p)]
    /\ cpNow = 0
    /\ cpOps = 0
    /\ cpCall = << >>
    /\ cpRet = [kind |-> "none"]
    /\ cpOthersIdle

NextCopier ==
    \E files \in FileLists, dest \in DestArgs, base_dir \in BaseDirArgs,
       tick \in {0, 1} :
        \/ CopierCopy(files, dest, base_dir, tick)
        \/ CopierMove(files, dest, base_dir, tick)

SpecCopier == InitCopier /\ [][NextCopier]_vars

(***************************************************************************)
(* Claims about StructurePreservingCopier.                                 *)
(***************************************************************************)
Transferred == cpRet.kind = "list"

\* the destination C25 names for file under dest, with the base directory
\* taken as given when given says so
DestinationOf(file, dest, base_dir, given) ==
    LET src == Resolve(file)
        base == Resolve(PathOf(base_dir.v))
    IN  IF given /\ StartsWith(src, base)
        THEN PathOf(dest) \o SubSeq(src, Len(base) + 1, Len(src))
        ELSE PathOf(dest) \o <<file[Len(file)]>>

\* one destination per input file, in input order
DestinationsAre(given) ==
    /\ Len(cpRet.paths) = Len(cpCall.files)
    /\ \A i \in 1..Len(cpCall.files) :
           cpRet.paths[i]
               = DestinationOf(cpCall.files[i], cpCall.dest, cpCall.base_dir, given)

SourcesOf == {Resolve(cpCall.files[i]) : i \in 1..Len(cpCall.files)}

\* C25 as stated: copy and move return one destination per input file, in
\* input order: dest joined with the file's path relative to base_dir when
\* the file lies under base_dir, dest joined with the bare file name when it
\* lies outside base_dir or no base_dir is given; after copy every source
\* file still exists, after move no source file exists at its old path.
C25_Original ==
    Transferred
    => /\ DestinationsAre(cpCall.base_dir.some)
       /\ cpCall.op = "copy" => \A src \in SourcesOf : src \in DOMAIN cpFiles
       /\ cpCall.op = "move" => \A src \in SourcesOf : src \notin DOMAIN cpFiles

\* C25 (amended): copy and move return one destination per input file, in
\* input order: dest joined with the file's path relative to base_dir when a
\* non-empty base_dir is given and the file lies under it, dest joined with
\* the bare file name when it lies outside base_dir or base_dir is None or
\* empty; after copy every source file still exists, after move no source
\* file exists at its old path unless that path is the destination of one
\* of the input files.
C25_Destinations ==
    Transferred
    => /\ DestinationsAre(Truthy(cpCall.base_dir))
       /\ cpCall.op = "copy" => \A src \in SourcesOf : src \in DOMAIN cpFiles
       /\ cpCall.op = "move"
          => \A src \in SourcesOf :
                 src \in DOMAIN cpFiles
                 => \E i \in 1..Len(cpRet.paths) : Resolve(cpRet.paths[i]) = src

\* e/x and d/s/x were moved to out with base_dir d: out/x and out/s/x
C25_Witness ==
    /\ Transferred
    /\ cpCall.op = "move"
    /\ cpCall.files = <<FileEX, FileDSX>>
    /\ cpCall.base_dir = Some(<<"d">>)
    /\ cpRet.paths = << <<<<"o", "u", "t">>, <<"x">>>>,
                        <<<<"o", "u", "t">>, <<"s">>, <<"x">>>> >>
    /\ Resolve(FileEX) \notin DOMAIN cpFiles
    /\ Resolve(FileDSX) \notin DOMAIN cpFiles
    /\ cpFiles[Resolve(cpRet.paths[2])] = DataOf(Resolve(FileDSX))

\* where the stamp of the last call is
StampPath(c) ==
    Resolve(Append(PathOf(c.dest),
                   MetadataName(IF c.op = "copy" THEN CopyOp ELSE MoveOp)))

\* C26: every successful copy (move) writes _copy_metadata.txt
\* (_move_metadata.txt) into the destination root, and the file count in it
\* is the number of files transferred by that operation, the length of the
\* returned list, 0 for an empty input; a later operation of the same kind
\* into the same destination replaces the stamp.
C26_Stamp ==
    [][cpRet'.kind = "list" /\ cpOps' # cpOps
       => LET at == StampPath(cpCall')
          IN  /\ Len(at) = Len(Resolve(PathOf(cpCall'.dest))) + 1
              /\ at[Len(at)] \in {MetadataName(CopyOp), MetadataName(MoveOp)}
              /\ at[Len(at)][2] = (IF cpCall'.op = "copy" THEN "c" ELSE "m")
              /\ at \in DOMAIN cpFiles'
              /\ cpFiles'[at].kind = "stamp"
              /\ cpFiles'[at].file_count = Digits(Len(cpRet'.paths))
              /\ Len(cpRet'.paths) = Len(cpCall'.files)
              /\ cpFiles'[at].timestamp = cpNow'
              /\ cpFiles'[at].source
                     = (IF Truthy(cpCall'.base_dir)
                        THEN Some(Resolve(PathOf(cpCall'.base_dir.v)))
                        ELSE NoneArg)]_vars

\* the stamp of a copy of two files into out was replaced by the stamp of a
\* later copy of no file
C26_Witness ==
    /\ Transferred
    /\ cpCall.op = "copy"
    /\ cpCall.files = << >>
    /\ cpCall.dest = <<"o", "u", "t">>
    /\ cpOps = 2
    /\ cpNow = 1
    /\ Cwd \o <<<<"o", "u", "t">>, <<"s">>, <<"x">>>> \in DOMAIN cpFiles
    /\ cpFiles[StampPath(cpCall)].file_count = <<"0">>
    /\ cpFiles[StampPath(cpCall)].timestamp = 1

(***************************************************************************)
(* GlobFileFinder.                                                         *)
(***************************************************************************)
\* the characters of the file names, in code point order
NameChars == <<".", "a", "b", "c", "d", "e", "j", "s", "t", "u", "x">>

OrdOf(ch) == CHOOSE i \in 1..Len(NameChars) : NameChars[i] = ch

\* a < b for two str
NameLess(a, b) ==
    \E k \in 0..Len(a) :
        /\ k <= Len(b)
        /\ SubSeq(a, 1, k) = SubSeq(b, 1, k)
        /\ \/ k = Len(a) /\ k < Len(b)
           \/ k < Len(a) /\ k < Len(b) /\ OrdOf(a[k + 1]) < OrdOf(b[k + 1])

\* p < q for two paths: their parts are compared one by one
PathLess(p, q) ==
    \E k \in 0..Len(p) :
        /\ k <= Len(q)
        /\ SubSeq(p, 1, k) = SubSeq(q, 1, k)
        /\ \/ k = Len(p) /\ k < Len(q)
           \/ k < Len(p) /\ k < Len(q) /\ NameLess(p[k + 1], q[k + 1])

\* list with p put in front of the first path greater than p
RECURSIVE Insert(_, _)
Insert(p, list) ==
    IF list = << >> THEN <<p>>
    ELSE IF PathLess(p, list[1]) THEN <<p>> \o list
    ELSE <<list[1]>> \o Insert(p, Tail(list))

\* sorted(files)
RECURSIVE Sorted(_)
Sorted(files) ==
    IF files = << >> THEN << >> ELSE Insert(files[1], Sorted(Tail(files)))

\* the paths of a set, one after the other
RECURSIVE ListOf(_)
ListOf(paths) ==
    IF paths = {} THEN << >>
    ELSE LET p == CHOOSE p \in paths : \A q \in paths : ~PathLess(q, p)
         IN  <<p>> \o ListOf(paths \ {p})

\* fnmatch of one name against one pattern part, * being the only wildcard
RECURSIVE FnMatch(_, _)
FnMatch(name, part) ==
    IF part = << >> THEN name = << >>
    ELSE IF part[1] = "*"
    THEN \/ FnMatch(name, Tail(part))
         \/ name # << >> /\ FnMatch(Tail(name), part)
    ELSE /\ name # << >>
         /\ name[1] = part[1]
         /\ FnMatch(Tail(name), Tail(part))

\* the names below the directory against the parts of the pattern, ** being
\* any number of directories
RECURSIVE GlobMatch(_, _)
GlobMatch(names, parts) ==
    IF parts = << >> THEN names = << >>
    ELSE IF parts[1] = <<"*", "*">>
    THEN \/ GlobMatch(names, Tail(parts))
         \/ Len(names) > 1 /\ GlobMatch(Tail(names), parts)
    ELSE /\ names # << >>
         /\ FnMatch(names[1], parts[1])
         /\ GlobMatch(Tail(names), Tail(parts))

\* dir_path.glob(pattern): directories and files alike
PathGlob(dirs, files, dir_path, pattern) ==
    {p \in dirs \cup files :
         /\ Len(p) > Len(dir_path)
         /\ StartsWith(p, dir_path)
         /\ GlobMatch(SubSeq(p, Len(dir_path) + 1, Len(p)), Split(pattern, "/"))}

\* dir_path.rglob(pattern)
PathRglob(dirs, files, dir_path, pattern) ==
    PathGlob(dirs, files, dir_path, <<"*", "*", "/">> \o pattern)

\* the loop over the extensions: the files each one finds are added to the
\* list
RECURSIVE ByExtensions(_, _, _, _)
ByExtensions(dirs, files, dir_path, extensions) ==
    IF extensions = << >> THEN << >>
    ELSE LET ext == IF StartsWith(extensions[1], <<".">>) THEN extensions[1]
                    ELSE <<".">> \o extensions[1]
         IN  ListOf(PathRglob(dirs, files, dir_path, <<"*">> \o ext) \cap files)
                 \o ByExtensions(dirs, files, dir_path, Tail(extensions))

\* GlobFileFinder.find(directory, pattern, extensions)
find(dirs, files, directory, pattern, extensions) ==
    LET dir_path == PathOf(directory)
    IN  IF dir_path \notin dirs \cup files
        THEN [kind |-> "FileNotFoundError", directory |-> directory]
        ELSE IF dir_path \notin dirs
        THEN [kind |-> "ValueError", what |-> "not a directory",
              directory |-> directory]
        ELSE IF ~pattern.some /\ ~extensions.some
        THEN [kind |-> "ValueError", what |-> "pattern or extensions"]
        ELSE IF pattern.some
        THEN [kind |-> "list",
              paths |-> Sorted(ListOf(PathGlob(dirs, files, dir_path, pattern.v)
                                          \cap files))]
        ELSE [kind |-> "list",
              paths |-> Sorted(ByExtensions(dirs, files, dir_path, extensions.v))]

FinderFind(directory, pattern, extensions) ==
    /\ fdCall' = [directory |-> directory, pattern |-> pattern,
                  extensions |-> extensions]
    /\ fdRet' = find(fdDirs, fdFiles, directory, pattern, extensions)
    /\ UNCHANGED <<fdDirs, fdFiles>>
    /\ UNCHANGED fdOthers

\* t/a.t, t/b.j, t/s/c.t, t/s/e.u.t and, in the directory t/d.t, t/d.t/x
FinderDirs == { <<<<"t">>>>, <<<<"t">>, <<"s">>>>, <<<<"t">>, <<"d", ".", "t">>>> }
FinderFiles ==
    { <<<<"t">>, <<"a", ".", "t">>>>, <<<<"t">>, <<"b", ".", "j">>>>,
      <<<<"t">>, <<"s">>, <<"c", ".", "t">>>>,
      <<<<"t">>, <<"s">>, <<"e", ".", "u", ".", "t">>>>,
      <<<<"t">>, <<"d", ".", "t">>, <<"x">>>> }

DirectoryArgs == {<<"t">>, <<"t", "/", "s">>, <<"t", "/", "a", ".", "t">>, <<"n">>}
PatternArgs ==
    {NoneArg, Some(<<"*", ".", "t">>), Some(<<"*", "*", "/", "*", ".", "t">>),
     Some(<<"*">>), Some(<<"*", "/", "*">>)}
ExtensionArgs ==
    {NoneArg, Some(<< >>), Some(<<<<".", "t">>>>), Some(<<<<"j">>>>),
     Some(<<<<".", "t">>, <<".", "j">>>>), Some(<<<<"t">>, <<".", "t">>>>),
     Some(<<<<".", "u", ".", "t">>, <<".", "t">>>>)}

InitFinder ==
    /\ RegIdle
    /\ WSIdle
    /\ tsCall = << >>
    /\ tsRet = [kind |-> "none"]
    /\ baseKind = "absent"
    /\ entries = << >>
    /\ fdDirs = FinderDirs
    /\ fdFiles \in {FinderFiles, FinderFiles \ {<<<<"t">>, <<"b", ".", "j">>>>}}
    /\ fdCall = << >>
    /\ fdRet = [kind |-> "none"]
    /\ fdOthersIdle

NextFinder ==
    \E directory \in DirectoryArgs, pattern \in PatternArgs,
       extensions \in ExtensionArgs :
        FinderFind(directory, pattern, extensions)

SpecFinder == InitFinder /\ [][NextFinder]_vars

(***************************************************************************)
(* Claims about GlobFileFinder.                                            *)
(***************************************************************************)
EndsWith(s, suffix) ==
    /\ Len(s) >= Len(suffix)
    /\ SubSeq(s, Len(s) - Len(suffix) + 1, Len(s)) = suffix

WithDot(ext) == IF StartsWith(ext, <<".">>) THEN ext ELSE <<".">> \o ext

\* the regular files find is to return
Matching ==
    LET dir_path == PathOf(fdCall.directory)
        below == {p \in fdFiles : Len(p) > Len(dir_path) /\ StartsWith(p, dir_path)}
    IN  IF fdCall.pattern.some
        THEN PathGlob(fdDirs, fdFiles, dir_path, fdCall.pattern.v) \cap fdFiles
        ELSE {p \in below :
                  \E i \in 1..Len(fdCall.extensions.v) :
                      EndsWith(p[Len(p)], WithDot(fdCall.extensions.v[i]))}

\* C27: find on an existing directory returns a list in ascending path
\* order of regular files only: every file matching the pattern (the
\* pattern goes first when both are given) or, with extensions only, every
\* file found recursively whose name ends with one of the extensions (a
\* leading dot is added when missing), each matching file exactly once; it
\* raises not-found for a missing directory and a value error for a path
\* that is no directory or when neither pattern nor extensions is given.
C27_Find ==
    fdCall # << >>
    => LET dir_path == PathOf(fdCall.directory)
       IN  IF dir_path \notin fdDirs \cup fdFiles
           THEN fdRet.kind = "FileNotFoundError"
           ELSE IF dir_path \notin fdDirs \/ (~fdCall.pattern.some
                                              /\ ~fdCall.extensions.some)
           THEN fdRet.kind = "ValueError"
           ELSE /\ fdRet.kind = "list"
                /\ {fdRet.paths[i] : i \in 1..Len(fdRet.paths)} = Matching
                /\ \A i \in 1..(Len(fdRet.paths) - 1) :
                       PathLess(fdRet.paths[i], fdRet.paths[i + 1])
                /\ Len(fdRet.paths) = Cardinality(Matching)

(***************************************************************************)
(* ConfigLoaderFacade.                                                     *)
(***************************************************************************)
MaxLoaders == 4

\* a loader object: its class and who made it
Loader(type, by) == [type |-> type, by |-> by]

LoaderTypes == {"PythonConfigLoader", "JsonConfigLoader", "YamlConfigLoader"}

\* path.endswith(suffix)
PathEndsWith(path, suffix) ==
    /\ Len(path) >= Len(suffix)
    /\ SubSeq(path, Len(path) - Len(suffix) + 1, Len(path)) = suffix

\* loader.supports(path)
supports(loader, path) ==
    CASE loader.type = "PythonConfigLoader" -> PathEndsWith(path, <<".", "p", "y">>)
      [] loader.type = "JsonConfigLoader"
             -> PathEndsWith(path, <<".", "j", "s", "o", "n">>)
      [] loader.type = "YamlConfigLoader"
             -> \/ PathEndsWith(path, <<".", "y", "a", "m", "l">>)
                \/ PathEndsWith(path, <<".", "y", "m", "l">>)

\* the files on disk: what each one holds
ConfigFiles ==
    (<<"c", ".", "p", "y">> :> "valid") @@ (<<"b", ".", "p", "y">> :> "syntax error")
        @@ (<<"c", ".", "j", "s", "o", "n">> :> "invalid")
        @@ (<<"c", ".", "y", "m", "l">> :> "valid")
        @@ (<<"c", ".", "t", "o", "m", "l">> :> "valid")

\* the paths asked for: m.json, m.yaml and m.ini do not exist
ConfigPaths ==
    DOMAIN ConfigFiles
        \cup {<<"m", ".", "j", "s", "o", "n">>, <<"m", ".", "y", "a", "m", "l">>,
              <<"m", ".", "i", "n", "i">>, <<"c", ".", "p", "y", "c">>}

\* loader.load(path): the existence check comes first
LoaderLoad(loader, path) ==
    IF path \notin DOMAIN ConfigFiles THEN [kind |-> "FileNotFoundError", path |-> path]
    ELSE IF ConfigFiles[path] = "syntax error"
    THEN [kind |-> "ValueError", what |-> "load failed", path |-> path]
    ELSE [kind |-> "dict", data |-> ConfigFiles[path]]

\* schema.model_validate(data, strict=True)
ModelValidate(data) ==
    IF data = "valid" THEN [kind |-> "model", data |-> data]
    ELSE [kind |-> "ValidationError"]

\* the index of the first loader that supports path, 0 when there is none
RECURSIVE FirstSupporting(_, _, _)
FirstSupporting(loaders, path, i) ==
    IF i > Len(loaders) THEN 0
    ELSE IF supports(loaders[i], path) THEN i
    ELSE FirstSupporting(loaders, path, i + 1)

\* the unsupported-format error
Unsupported(loaders, path) ==
    [kind |-> "ValueError", what |-> "unsupported format", path |-> path,
     supported |-> [i \in 1..Len(loaders) |-> loaders[i].type]]

\* the loader picked when a later loader goes before an earlier one
SelectLoaderLast(loaders, path) ==
    LET supporting == {i \in 1..Len(loaders) : supports(loaders[i], path)}
    IN  IF supporting = {} THEN 0
        ELSE CHOOSE i \in supporting : \A j \in supporting : j <= i

\* the loader picked by the for loop of load and load_dict
SelectLoader(loaders, path) == FirstSupporting(loaders, path, 1)

\* ConfigLoaderFacade.load_dict(path): the result and the loader asked
load_dict(loaders, path) ==
    LET k == SelectLoader(loaders, path)
    IN  IF k = 0 THEN [ret |-> Unsupported(loaders, path), asked |-> << >>]
        ELSE [ret |-> LoaderLoad(loaders[k], path), asked |-> <<k>>]

\* ConfigLoaderFacade.load(path, schema)
load(loaders, path) ==
    LET k == SelectLoader(loaders, path)
        data == LoaderLoad(loaders[k], path)
    IN  IF k = 0 THEN [ret |-> Unsupported(loaders, path), asked |-> << >>]
        ELSE IF data.kind # "dict" THEN [ret |-> data, asked |-> <<k>>]
        ELSE [ret |-> ModelValidate(data.data), asked |-> <<k>>]

\* ConfigLoaderFacade(loaders)
DefaultLoaders ==
    <<Loader("PythonConfigLoader", "default"), Loader("JsonConfigLoader", "default"),
      Loader("YamlConfigLoader", "default")>>

ConfigLoaderFacade(loaders) == IF Truthy(loaders) THEN loaders.v ELSE DefaultLoaders

FacadeLoad(path) ==
    LET out == load(cfLoaders, path)
    IN  /\ cfCall' = [op |-> "load", path |-> path]
        /\ cfRet' = [ret |-> out.ret, asked |-> out.asked]
        /\ UNCHANGED <<cfArg, cfLoaders, cfRegistered>>
        /\ UNCHANGED cfOthers

FacadeLoadDict(path) ==
    LET out == load_dict(cfLoaders, path)
    IN  /\ cfCall' = [op |-> "load_dict", path |-> path]
        /\ cfRet' = [ret |-> out.ret, asked |-> out.asked]
        /\ UNCHANGED <<cfArg, cfLoaders, cfRegistered>>
        /\ UNCHANGED cfOthers

\* ConfigLoaderFacade.register_loader(loader)
RegisterLoader(loader) ==
    /\ Len(cfLoaders) < MaxLoaders
    /\ cfLoaders' = Append(cfLoaders, loader)
    /\ cfRegistered' = Append(cfRegistered, loader)
    /\ cfCall' = [op |-> "register_loader", loader |-> loader]
    /\ cfRet' = [ret |-> [kind |-> "None"], asked |-> << >>]
    /\ UNCHANGED cfArg
    /\ UNCHANGED cfOthers

LoadersArgs ==
    {NoneArg, Some(<< >>),
     Some(<<Loader("YamlConfigLoader", "caller"), Loader("JsonConfigLoader", "caller")>>)}

InitConfig ==
    /\ RegIdle
    /\ WSIdle
    /\ tsCall = << >>
    /\ tsRet = [kind |-> "none"]
    /\ baseKind = "absent"
    /\ entries = << >>
    /\ cfArg \in LoadersArgs
    /\ cfLoaders = ConfigLoaderFacade(cfArg)
    /\ cfRegistered = << >>
    /\ cfCall = << >>
    /\ cfRet = [kind |-> "none"]
    /\ cfOthersIdle

NextConfig ==
    \/ \E path \in ConfigPaths : FacadeLoad(path)
    \/ \E path \in ConfigPaths : FacadeLoadDict(path)
    \/ \E type \in LoaderTypes : RegisterLoader(Loader(type, "registered"))

SpecConfig == InitConfig /\ [][NextConfig]_vars

(***************************************************************************)
(* Claims about ConfigLoaderFacade.                                        *)
(***************************************************************************)
Loading == cfCall # << >> /\ cfCall.op \in {"load", "load_dict"}

Supporting == {i \in 1..Len(cfLoaders) : supports(cfLoaders[i], cfCall.path)}

\* C28: load and load_dict use the first loader in list order whose
\* supports(path) is true (.py, then .json, then .yaml/.yml by default;
\* loaders added by register_loader come last); when no loader supports the
\* path they raise the unsupported-format error, which names the path and
\* lists the loaders, without any loader looking for the file; when a loader
\* supports the path and the file is missing, the not-found error comes out.
C28_FirstLoader ==
    /\ ~Truthy(cfArg)
       => SubSeq(cfLoaders, 1, 3)
              = <<Loader("PythonConfigLoader", "default"),
                  Loader("JsonConfigLoader", "default"),
                  Loader("YamlConfigLoader", "default")>>
    /\ LET front == Len(cfLoaders) - Len(cfRegistered)
       IN  /\ SubSeq(cfLoaders, front + 1, Len(cfLoaders)) = cfRegistered
           /\ \A i \in 1..front : cfLoaders[i].by # "registered"
    /\ Loading
       => IF Supporting = {}
          THEN /\ cfRet.ret.kind = "ValueError"
               /\ cfRet.ret.what = "unsupported format"
               /\ cfRet.ret.path = cfCall.path
               /\ cfRet.ret.supported
                      = [i \in 1..Len(cfLoaders) |-> cfLoaders[i].type]
               /\ cfRet.asked = << >>
          ELSE /\ cfRet.asked = <<CHOOSE i \in Supporting :
                                      \A j \in Supporting : i <= j>>
               /\ cfCall.path \notin DOMAIN ConfigFiles
                  => cfRet.ret.kind = "FileNotFoundError"

\* m.json was asked of a facade built with a YAML and a JSON loader, after a
\* second JSON loader was registered: the caller's JSON loader was asked
C28_Witness ==
    /\ Loading
    /\ cfCall.path = <<"m", ".", "j", "s", "o", "n">>
    /\ Len(cfLoaders) = 3
    /\ cfLoaders[3] = Loader("JsonConfigLoader", "registered")
    /\ cfRet.asked = <<2>>
    /\ cfRet.ret.kind = "FileNotFoundError"

(***************************************************************************)
(* Claims about the range of find_next_index.                              *)
(***************************************************************************)
\* C29: find_next_index always returns an integer >= 1, for every set of
\* entries in base_dir, including children whose suffix after date_tag_
\* reads as zero, as a signed number or has further parts after another
\* underscore.
C29_AtLeastOne ==
    (tsCall # << >> /\ baseKind = "dir") => (tsRet.kind = "int" /\ tsRet.n >= 1)

(***************************************************************************)
(* Two allocators in _create_numbered_dir on one base_dir.                 *)
(***************************************************************************)
MaxRaceCalls == 2

Allocators == {1, 2}

Other(p) == 3 - p

\* base_path / f"{prefix}{index}"
TargetOf(prefix, index) == prefix \o Digits(index)

\* target.mkdir(parents=True) without exist_ok
TargetMkdirExclusive(ents, target) ==
    IF target \in DOMAIN ents THEN [kind |-> "FileExistsError", ents |-> ents]
    ELSE [kind |-> "ok", ents |-> (target :> TRUE) @@ ents]

\* target.mkdir(parents=True, exist_ok=True): a directory that is there by
\* now is accepted
TargetMkdir(ents, target) ==
    IF target \notin DOMAIN ents THEN [kind |-> "ok", ents |-> (target :> TRUE) @@ ents]
    ELSE IF ents[target] THEN [kind |-> "ok", ents |-> ents]
    ELSE [kind |-> "FileExistsError", ents |-> ents]

\* allocator p enters _create_numbered_dir(base_path, prefix): index = 1
NumberedBegin(p, prefix) ==
    /\ rcPc[p] \in {"idle", "done"}
    /\ rcCalls[p] < MaxRaceCalls
    /\ rcCalls' = [rcCalls EXCEPT ![p] = @ + 1]
    /\ rcPc' = [rcPc EXCEPT ![p] = "check"]
    /\ rcPrefix' = [rcPrefix EXCEPT ![p] = prefix]
    /\ rcIndex' = [rcIndex EXCEPT ![p] = 1]
    /\ rcRet' = [rcRet EXCEPT ![p] = [kind |-> "none"]]
    /\ rcRaced' = [rcRaced EXCEPT ![p] = << >>]
    /\ UNCHANGED rcEntries
    /\ UNCHANGED rcOthers

\* "if not target.exists()": on to mkdir, or index += 1
NumberedCheck(p) ==
    LET target == TargetOf(rcPrefix[p], rcIndex[p])
        q == Other(p)
    IN  /\ rcPc[p] = "check"
        /\ IF target \in DOMAIN rcEntries
           THEN /\ rcIndex' = [rcIndex EXCEPT ![p] = @ + 1]
                /\ UNCHANGED <<rcPc, rcRaced>>
           ELSE /\ rcPc' = [rcPc EXCEPT ![p] = "mkdir"]
                /\ rcRaced' = IF /\ rcPc[q] = "mkdir"
                                 /\ TargetOf(rcPrefix[q], rcIndex[q]) = target
                              THEN [r \in Allocators |-> target]
                              ELSE rcRaced
                /\ UNCHANGED rcIndex
        /\ UNCHANGED <<rcEntries, rcPrefix, rcRet, rcCalls>>
        /\ UNCHANGED rcOthers

\* "target.mkdir(parents=True, exist_ok=True); return target"
NumberedMkdir(p) ==
    LET target == TargetOf(rcPrefix[p], rcIndex[p])
        made == TargetMkdir(rcEntries, target)
    IN  /\ rcPc[p] = "mkdir"
        /\ rcEntries' = made.ents
        /\ rcRet' = [rcRet EXCEPT ![p] = IF made.kind = "ok"
                                         THEN [kind |-> "Path", name |-> target]
                                         ELSE [kind |-> made.kind]]
        /\ rcPc' = [rcPc EXCEPT ![p] = "done"]
        /\ UNCHANGED <<rcPrefix, rcIndex, rcCalls, rcRaced>>
        /\ UNCHANGED rcOthers

\* the children base_dir may hold at the start
RaceListings ==
    { << >>, (PrefixM \o <<"1">>) :> TRUE, (PrefixM \o <<"1">>) :> FALSE,
      ((PrefixM \o <<"1">>) :> TRUE) @@ ((PrefixM \o <<"2">>) :> TRUE) }

InitRace ==
    /\ RegIdle
    /\ WSIdle
    /\ tsCall = << >>
    /\ tsRet = [kind |-> "none"]
    /\ baseKind = "absent"
    /\ entries = << >>
    /\ rcEntries \in RaceListings
    /\ rcPc = [p \in Allocators |-> "idle"]
    /\ rcPrefix = [p \in Allocators |-> << >>]
    /\ rcIndex = [p \in Allocators |-> 0]
    /\ rcRet = [p \in Allocators |-> [kind |-> "none"]]
    /\ rcCalls = [p \in Allocators |-> 0]
    /\ rcRaced = [p \in Allocators |-> << >>]
    /\ rcOthersIdle

NextRace ==
    \E p \in Allocators :
        \/ \E prefix \in {PrefixM, PrefixR} : NumberedBegin(p, prefix)
        \/ NumberedCheck(p)
        \/ NumberedMkdir(p)

SpecRace == InitRace /\ [][NextRace]_vars

(***************************************************************************)
(* Claims about concurrent allocation.                                     *)
(***************************************************************************)
\* C30: prefix-mode allocation is a check followed by a create, with no
\* lock and no retry: when two allocators on the same base_dir and prefix
\* have both checked prefix{n} before either made it, both calls succeed and
\* return the same root prefix{n}; no error reports the collision.
C30_Collision ==
    [][\A p \in Allocators :
           (rcPc[p] = "mkdir" /\ rcPc'[p] = "done" /\ rcRaced[p] # << >>)
           => /\ rcRaced[p] = TargetOf(rcPrefix[p], rcIndex[p])
              /\ rcRet'[p] = [kind |-> "Path", name |-> rcRaced[p]]
              /\ rcPc[Other(p)] = "done" /\ rcRaced[Other(p)] = rcRaced[p]
                 => rcRet'[Other(p)] = rcRet'[p]]_vars

\* both allocators returned m2, which both had found free
C30_Witness ==
    /\ rcPc = [p \in Allocators |-> "done"]
    /\ rcRaced = [p \in Allocators |-> PrefixM \o <<"2">>]
    /\ rcRet = [p \in Allocators |-> [kind |-> "Path", name |-> PrefixM \o <<"2">>]]
    /\ rcEntries[PrefixM \o <<"2">>]

====
